---- MODULE Spec2Model ----
(***************************************************************************)
(* GestureEngine of Voice_and_Gesture_Control_UI/gesture_client.py as a    *)
(* state machine: one Update step per captured frame.                      *)
(*                                                                         *)
(* Units.  Lengths are in thousandths of the normalised image width        *)
(* (0.04 is 40), times in milliseconds (0.20 s is 200), so that every      *)
(* threshold of the source is an integer.  The frames that are fed in take *)
(* their points from sets in which every distance the engine computes is a *)
(* whole number (3-4-5 triangles, motion along one axis), so Sqrt is       *)
(* exact on them.  A velocity is kept as the fraction n / d.               *)
(*                                                                         *)
(* A landmark coordinate is x + fx / 1000 thousandths: x is its part on    *)
(* the grid of thousandths and fx, in millionths, what lies below the      *)
(* grid.  All landmarks of all frames of a behaviour carry the same        *)
(* (fx, fy), so every distance and every displacement is that of the grid  *)
(* parts; the positions the engine stores for measuring them (prev_palm,   *)
(* trail) are kept as grid parts.  cursor_x and cursor_y, which go out in  *)
(* the event, hold the whole coordinate in millionths.                     *)
(***************************************************************************)
EXTENDS Integers, Sequences, FiniteSets, TLC

VARIABLES
    clock,                \* time.monotonic(), ms
    state,                \* self.state
    idx_pinched,          \* self.idx_pinched
    mid_pinched,          \* self.mid_pinched
    idx_dist,             \* self.idx_dist
    mid_dist,             \* self.mid_dist
    pinch_t0,             \* self.pinch_t0
    dur_ms,               \* self.dur_ms
    prev_palm,            \* self.prev_palm: None or <<x, y>>
    frame_dx,             \* self.frame_dx
    frame_dy,             \* self.frame_dy
    cum_move,             \* self.cum_move
    moved,                \* self.moved
    trail,                \* self._trail: deque(maxlen=12) of <<x, y, t>>
    vel,                  \* self.vel, a fraction [n, d]
    tap_count,            \* self.tap_count
    gtype,                \* self.gtype
    gstate,               \* self.gstate
    cursor_x,             \* self.cursor_x
    cursor_y,             \* self.cursor_y
    dbl_cooldown_until,   \* self._dbl_cooldown_until
    pre,                  \* history: the engine as the last frame found it
    nframes,              \* history: number of frames processed
    pinch_path,           \* history: index-tip positions of the index pinch
    hist,                 \* history: one record per frame processed
    calls,                \* history: per call of update, its input and result
    frozen,               \* GestureHandler._frozen
    freeze_px,            \* GestureHandler._freeze_px
    freeze_py,            \* GestureHandler._freeze_py
    smooth_x,             \* GestureHandler._smooth_x: None or a fraction
    smooth_y,             \* GestureHandler._smooth_y: None or a fraction
    action_count,         \* GestureHandler._action_count
    tools,                \* GestureHandler._tools: the names of the tools
    mouse_x,              \* the OS pointer, pyautogui.position().x
    mouse_y,              \* the OS pointer, pyautogui.position().y
    hpre,                 \* history: the handler as its last call found it
    hlast,                \* history: the handler's last call and what it did
    nevents,              \* history: number of calls of the handler
    freeze_point,         \* history: where the running gesture froze the cursor
    ws_running,           \* GestureWSClient._running
    ws_pc,                \* _listen_loop: "idle", "connecting", "listening", "sleeping", "stopped"
    delay,                \* _listen_loop: delay, in 1/64 s
    backoffs,             \* history: retry sleeps finished since the last connection
    attempts,             \* history: connection attempts
    ws_last,              \* history: the last step of the listener
    clients,              \* ConnectionManager._clients
    use_redis,            \* ConnectionManager._use_redis
    msg_count,            \* ConnectionManager._msg_count
    client_state,         \* per socket: "new", "connected" or "closed"
    channel,              \* the Redis channel: messages published, not yet heard
    ingested,             \* history: the messages ingest took, with their senders
    delivered,            \* history: pairs <<socket, message>> of send_bytes
    name,                 \* ConnectionManager._name: "gesture" or "speech"
    sent,                 \* history: the send_bytes calls, with their data
    slast,                \* history: the frame the server took last, if a frame was its last step
    inflight,             \* the calls of _broadcast_local that wait in gather
    finished,             \* history: the calls of _broadcast_local that returned
    raised                \* an exception reached an endpoint from a broadcast

evars == <<clock, state, idx_pinched, mid_pinched, idx_dist, mid_dist, pinch_t0,
           dur_ms, prev_palm, frame_dx, frame_dy, cum_move, moved, trail, vel,
           tap_count, gtype, gstate, cursor_x, cursor_y, dbl_cooldown_until,
           pre, nframes, pinch_path, hist, calls>>

wvars == <<ws_running, ws_pc, delay, backoffs, attempts, ws_last>>

hvars == <<frozen, freeze_px, freeze_py, smooth_x, smooth_y, action_count, tools,
           mouse_x, mouse_y, hpre, hlast, nevents, freeze_point, wvars>>

bvars == <<inflight, finished, raised>>

svars == <<clients, use_redis, msg_count, client_state, channel, ingested, delivered,
           name, sent, slast, bvars>>

vars == <<evars, hvars, svars>>

----------------------------------------------------------------------------
(* Configuration constants of gesture_client.py *)

PINCH_DIST == 40          \* 0.04
PINCH_EXIT == 50          \* 0.05
TAP_MAX_TIME == 200       \* 0.20 s
HOLD_MIN_MS == 500
DRAG_DEADZONE == 50       \* 0.05
FLICK_VELOCITY == 300     \* 0.30 per 0.1 s
DOUBLE_TAP_COOL == 300    \* 0.30 s
THUMB_TIP == 4
INDEX_TIP == 8
MIDDLE_TIP == 12
S_IDLE == 0
S_IDX_PINCH == 1
S_MID_PINCH == 2
TRAIL_MAXLEN == 12        \* deque(maxlen=12)
VEL_WINDOW == 100         \* the 0.1 s of _calc_vel
VEL_MIN_DT == 10          \* the 0.01 s of _calc_vel
NUM_LANDMARKS == 21       \* landmarks per hand delivered by the detector
DOC_QUICK_MS == 300       \* "Quick release (<300ms)" of the class docstring

None == <<>>               \* Python None, where a pair is expected

----------------------------------------------------------------------------
(* Arithmetic *)

Abs(a) == IF a < 0 THEN -a ELSE a

Min(a, b) == IF a < b THEN a ELSE b
Max(a, b) == IF a > b THEN a ELSE b

\* the one element of a singleton set
Only(S) == CHOOSE y \in S : TRUE

\* F applied to the value of v, v being evaluated once
Then(v, F(_)) == Only({F(x) : x \in {v}})

\* integer square root of m < 4096 * 4096, found one base-16 digit at a time:
\* Digit is the d for which the root lies in base + d*w .. base + (d+1)*w - 1
Digit(m, base, w) ==
    CHOOSE d \in 0..15 :
        /\ (base + d * w) * (base + d * w) <= m
        /\ m < (base + (d + 1) * w) * (base + (d + 1) * w)

Sqrt2(m, a) == Then(a + 16 * Digit(m, a, 16), LAMBDA ab : ab + Digit(m, ab, 1))

Sqrt1(m) == Then(256 * Digit(m, 0, 256), LAMBDA a : Sqrt2(m, a))

Sqrt(n) == Then(n, Sqrt1)

FINE == 1000              \* millionths per thousandth

\* a landmark on the grid
Pt(x, y) == [x |-> x, y |-> y, fx |-> 0, fy |-> 0]

\* the x and y of a landmark, in millionths
FineX(p) == p.x * FINE + p.fx
FineY(p) == p.y * FINE + p.fy

\* round(v, 5) for v >= 0 in millionths: the nearest multiple of 10, a tie
\* going to the even one
Round5(v) ==
    IF (v % 10) < 5 THEN v - (v % 10)
    ELSE IF (v % 10) > 5 THEN v - (v % 10) + 10
    ELSE IF ((v \div 10) % 2) = 0 THEN v - (v % 10)
    ELSE v - (v % 10) + 10

Dist(a, b) == Sqrt((a.x - b.x) * (a.x - b.x) + (a.y - b.y) * (a.y - b.y))

Frac(n, d) == [n |-> n, d |-> d]

ZeroVel == Frac(0, 1)

\* v > c for a fraction v with v.d > 0
FracGT(v, c) == v.n > c * v.d

----------------------------------------------------------------------------
(* The engine as one record, so that the helper methods of the class can   *)
(* be written as functions from engine to engine.                          *)

Eng ==
    [state |-> state, idx_pinched |-> idx_pinched, mid_pinched |-> mid_pinched,
     idx_dist |-> idx_dist, mid_dist |-> mid_dist, pinch_t0 |-> pinch_t0,
     dur_ms |-> dur_ms, prev_palm |-> prev_palm, frame_dx |-> frame_dx,
     frame_dy |-> frame_dy, cum_move |-> cum_move, moved |-> moved,
     trail |-> trail, vel |-> vel, tap_count |-> tap_count, gtype |-> gtype,
     gstate |-> gstate, cursor_x |-> cursor_x, cursor_y |-> cursor_y,
     dbl_cooldown_until |-> dbl_cooldown_until]

\* GestureEngine.__init__
InitEng ==
    [state |-> S_IDLE, idx_pinched |-> FALSE, mid_pinched |-> FALSE,
     idx_dist |-> 1000, mid_dist |-> 1000, pinch_t0 |-> 0,
     dur_ms |-> 0, prev_palm |-> None, frame_dx |-> 0,
     frame_dy |-> 0, cum_move |-> 0, moved |-> FALSE,
     trail |-> <<>>, vel |-> ZeroVel, tap_count |-> 0, gtype |-> "none",
     gstate |-> "idle", cursor_x |-> 500 * FINE, cursor_y |-> 500 * FINE,
     dbl_cooldown_until |-> 0]

\* Hysteresis without the band: one threshold, PINCH_DIST
HysteresisNoBand(pinched, dist) == dist < PINCH_DIST

\* Hysteresis with the thresholds included: enter at <=, exit at >=
HysteresisInclusive(pinched, dist) ==
    IF ~pinched /\ dist <= PINCH_DIST THEN TRUE
    ELSE IF pinched /\ dist >= PINCH_EXIT THEN FALSE
    ELSE pinched

\* the pinched flag of one channel after a frame with distance dist
Hysteresis(pinched, dist) ==
    IF ~pinched /\ dist < PINCH_DIST THEN TRUE
    ELSE IF pinched /\ dist > PINCH_EXIT THEN FALSE
    ELSE pinched

\* a deque without maxlen
TrailAppendUnbounded(tr, s) == Append(tr, s)

\* deque(maxlen=12).append
TrailAppend(tr, s) ==
    IF Len(tr) >= TRAIL_MAXLEN THEN Append(Tail(tr), s) ELSE Append(tr, s)

\* VelReference that always measures from the oldest sample
VelReferenceOldest(tr, target) == tr[1]

\* VelReference that measures from the earliest sample inside the window
VelReferenceInWindow(tr, target) ==
    tr[CHOOSE i \in 1..Len(tr) :
          /\ tr[i][3] >= target
          /\ \A j \in 1..(i - 1) : tr[j][3] < target]

\* the sample _calc_vel measures from: the last one of the leading run of
\* samples with t <= target, or the oldest sample when that run is empty
VelReference(tr, target) ==
    LET run == {i \in 1..Len(tr) : \A j \in 1..i : tr[j][3] <= target}
    IN IF run = {} THEN tr[1]
       ELSE tr[CHOOSE i \in run : \A k \in run : k <= i]

\* _calc_vel from the reference sample best to the newest sample last
VelBetween(best, last) ==
    IF last[3] - best[3] < VEL_MIN_DT THEN ZeroVel
    ELSE Frac(Dist(Pt(last[1], last[2]), Pt(best[1], best[2])) * VEL_WINDOW,
              last[3] - best[3])

CalcVel(tr) ==
    IF Len(tr) < 3 THEN ZeroVel
    ELSE Then(VelReference(tr, tr[Len(tr)][3] - VEL_WINDOW),
              LAMBDA best : VelBetween(best, tr[Len(tr)]))

\* _enter_idx_pinch without _trail.clear()
EnterIdxPinchKeepTrail(e, now, ix, iy) ==
    [e EXCEPT !.state = S_IDX_PINCH, !.pinch_t0 = now, !.prev_palm = <<ix, iy>>,
              !.cum_move = 0, !.moved = FALSE,
              !.trail = TrailAppend(e.trail, <<ix, iy, now>>),
              !.gtype = "pinch_hold", !.gstate = "start"]

EnterIdxPinch(e, now, ix, iy) ==
    [e EXCEPT !.state = S_IDX_PINCH, !.pinch_t0 = now, !.prev_palm = <<ix, iy>>,
              !.cum_move = 0, !.moved = FALSE, !.trail = << <<ix, iy, now>> >>,
              !.gtype = "pinch_hold", !.gstate = "start"]

\* _enter_mid_pinch that also drops the cooldown deadline
EnterMidPinchClearCooldown(e, now) ==
    [e EXCEPT !.state = S_MID_PINCH, !.pinch_t0 = now,
              !.gtype = "double_tap", !.gstate = "start",
              !.dbl_cooldown_until = 0]

EnterMidPinch(e, now) ==
    [e EXCEPT !.state = S_MID_PINCH, !.pinch_t0 = now,
              !.gtype = "double_tap", !.gstate = "start"]

\* _reset_pinch that leaves the accumulated movement
ResetPinchKeepMove(e) == [e EXCEPT !.prev_palm = None]

ResetPinch(e) ==
    [e EXCEPT !.prev_palm = None, !.cum_move = 0, !.moved = FALSE]

\* IdxEntryAllowed without the cooldown
IdxEntryAlways(e, now) == e.idx_pinched

\* IdxEntryAllowed with the deadline itself allowed
IdxEntryInclusive(e, now) == e.idx_pinched /\ now >= e.dbl_cooldown_until

\* the ghost-prevention test of the idle branch
IdxEntryAllowed(e, now) == e.idx_pinched /\ now > e.dbl_cooldown_until

\* StepIdle with the index channel tested before the middle channel
StepIdleIndexFirst(e, now, ix, iy) ==
    IF IdxEntryAllowed(e, now)
    THEN EnterIdxPinch([e EXCEPT !.gtype = "none", !.gstate = "idle"], now, ix, iy)
    ELSE IF e.mid_pinched
    THEN EnterMidPinch([e EXCEPT !.gtype = "none", !.gstate = "idle"], now)
    ELSE [e EXCEPT !.gtype = "none", !.gstate = "idle"]

\* update, state S_IDLE
StepIdle(e, now, ix, iy) ==
    IF e.mid_pinched
    THEN EnterMidPinch([e EXCEPT !.gtype = "none", !.gstate = "idle"], now)
    ELSE IF IdxEntryAllowed(e, now)
    THEN EnterIdxPinch([e EXCEPT !.gtype = "none", !.gstate = "idle"], now, ix, iy)
    ELSE [e EXCEPT !.gtype = "none", !.gstate = "idle"]

\* MidVerdict with the cooldown starting at the pinch instead of the release
MidVerdictCooldownFromStart(e, now) ==
    IF e.dur_ms < TAP_MAX_TIME
    THEN [e EXCEPT !.gtype = "double_tap", !.gstate = "end", !.tap_count = 2,
                   !.dbl_cooldown_until = e.pinch_t0 + DOUBLE_TAP_COOL]
    ELSE [e EXCEPT !.gtype = "none", !.gstate = "idle"]

\* MidVerdict with the cooldown set on a discarded hold too
MidVerdictAlwaysCooldown(e, now) ==
    IF e.dur_ms < TAP_MAX_TIME
    THEN [e EXCEPT !.gtype = "double_tap", !.gstate = "end", !.tap_count = 2,
                   !.dbl_cooldown_until = now + DOUBLE_TAP_COOL]
    ELSE [e EXCEPT !.gtype = "none", !.gstate = "idle",
                   !.dbl_cooldown_until = now + DOUBLE_TAP_COOL]

\* update, state S_MID_PINCH, middle finger released: the verdict
MidVerdict(e, now) ==
    IF e.dur_ms < TAP_MAX_TIME
    THEN [e EXCEPT !.gtype = "double_tap", !.gstate = "end", !.tap_count = 2,
                   !.dbl_cooldown_until = now + DOUBLE_TAP_COOL]
    ELSE [e EXCEPT !.gtype = "none", !.gstate = "idle"]

\* MidRelease without the return to S_IDLE
MidReleaseKeepState(e, now) == MidVerdict(e, now)

MidRelease(e, now) == [MidVerdict(e, now) EXCEPT !.state = S_IDLE]

\* update, state S_MID_PINCH, after dur_ms is set
MidBranch(e, now) ==
    IF e.mid_pinched
    THEN [e EXCEPT !.gtype = "double_tap", !.gstate = "start"]
    ELSE MidRelease(e, now)

StepMidPinch(e, now) ==
    Then([e EXCEPT !.dur_ms = now - e.pinch_t0], LAMBDA e1 : MidBranch(e1, now))

\* index finger still pinched: frame displacement added to cum_move
TrackMove(e, ix, iy) ==
    IF e.prev_palm # None
    THEN [e EXCEPT !.frame_dx = ix - e.prev_palm[1],
                   !.frame_dy = iy - e.prev_palm[2],
                   !.cum_move = e.cum_move
                       + Sqrt((ix - e.prev_palm[1]) * (ix - e.prev_palm[1])
                              + (iy - e.prev_palm[2]) * (iy - e.prev_palm[2])),
                   !.prev_palm = <<ix, iy>>]
    ELSE [e EXCEPT !.prev_palm = <<ix, iy>>]

\* a deadzone test that takes any movement at all
TrackDeadzoneAnyMove(e) ==
    IF e.cum_move > 0 THEN [e EXCEPT !.moved = TRUE] ELSE e

\* index finger still pinched: the deadzone test
TrackDeadzone(e) ==
    IF e.cum_move > DRAG_DEADZONE THEN [e EXCEPT !.moved = TRUE] ELSE e

\* TrackClassify with the hold test made before the moved test
TrackClassifyHoldFirst(e) ==
    IF e.dur_ms > HOLD_MIN_MS
    THEN [e EXCEPT !.gtype = "pinch_hold", !.gstate = "active"]
    ELSE IF e.moved THEN [e EXCEPT !.gtype = "pinch_drag", !.gstate = "active"]
    ELSE [e EXCEPT !.gtype = "pinch_hold", !.gstate = "start"]

\* TrackClassify with the hold test at >= HOLD_MIN_MS
TrackClassifyHoldInclusive(e) ==
    IF e.moved THEN [e EXCEPT !.gtype = "pinch_drag", !.gstate = "active"]
    ELSE IF e.dur_ms >= HOLD_MIN_MS
    THEN [e EXCEPT !.gtype = "pinch_hold", !.gstate = "active"]
    ELSE [e EXCEPT !.gtype = "pinch_hold", !.gstate = "start"]

\* index finger still pinched: the classification
TrackClassify(e) ==
    IF e.moved THEN [e EXCEPT !.gtype = "pinch_drag", !.gstate = "active"]
    ELSE IF e.dur_ms > HOLD_MIN_MS
    THEN [e EXCEPT !.gtype = "pinch_hold", !.gstate = "active"]
    ELSE [e EXCEPT !.gtype = "pinch_hold", !.gstate = "start"]

\* update, state S_IDX_PINCH, index finger still pinched
IdxTrack(e, ix, iy) ==
    Then(Then(TrackMove(e, ix, iy), TrackDeadzone), TrackClassify)

\* ReleaseClassify with the flick test not guarded by moved
ReleaseClassifyFlickUnguarded(e) ==
    IF FracGT(e.vel, FLICK_VELOCITY)
    THEN [e EXCEPT !.gtype = "pinch_flick", !.gstate = "end"]
    ELSE IF e.dur_ms < TAP_MAX_TIME /\ ~e.moved
    THEN [e EXCEPT !.gtype = "tap", !.gstate = "end", !.tap_count = 1]
    ELSE IF e.moved
    THEN [e EXCEPT !.gtype = "pinch_drag", !.gstate = "end"]
    ELSE [e EXCEPT !.gtype = "pinch_hold", !.gstate = "end"]

\* ReleaseClassify with the drag test made before the flick test
ReleaseClassifyDragFirst(e) ==
    IF e.moved
    THEN [e EXCEPT !.gtype = "pinch_drag", !.gstate = "end"]
    ELSE IF FracGT(e.vel, FLICK_VELOCITY)
    THEN [e EXCEPT !.gtype = "pinch_flick", !.gstate = "end"]
    ELSE IF e.dur_ms < TAP_MAX_TIME
    THEN [e EXCEPT !.gtype = "tap", !.gstate = "end", !.tap_count = 1]
    ELSE [e EXCEPT !.gtype = "pinch_hold", !.gstate = "end"]

\* ReleaseClassify with the tap test not guarded by moved
ReleaseClassifyTapUnguarded(e) ==
    IF e.moved /\ FracGT(e.vel, FLICK_VELOCITY)
    THEN [e EXCEPT !.gtype = "pinch_flick", !.gstate = "end"]
    ELSE IF e.dur_ms < TAP_MAX_TIME
    THEN [e EXCEPT !.gtype = "tap", !.gstate = "end", !.tap_count = 1]
    ELSE IF e.moved
    THEN [e EXCEPT !.gtype = "pinch_drag", !.gstate = "end"]
    ELSE [e EXCEPT !.gtype = "pinch_hold", !.gstate = "end"]

\* ReleaseClassify with the tap test at <= TAP_MAX_TIME
ReleaseClassifyTapInclusive(e) ==
    IF e.moved /\ FracGT(e.vel, FLICK_VELOCITY)
    THEN [e EXCEPT !.gtype = "pinch_flick", !.gstate = "end"]
    ELSE IF e.dur_ms <= TAP_MAX_TIME /\ ~e.moved
    THEN [e EXCEPT !.gtype = "tap", !.gstate = "end", !.tap_count = 1]
    ELSE IF e.moved
    THEN [e EXCEPT !.gtype = "pinch_drag", !.gstate = "end"]
    ELSE [e EXCEPT !.gtype = "pinch_hold", !.gstate = "end"]

\* index finger released: the classification, vel being set
ReleaseClassify(e) ==
    IF e.moved /\ FracGT(e.vel, FLICK_VELOCITY)
    THEN [e EXCEPT !.gtype = "pinch_flick", !.gstate = "end"]
    ELSE IF e.dur_ms < TAP_MAX_TIME /\ ~e.moved
    THEN [e EXCEPT !.gtype = "tap", !.gstate = "end", !.tap_count = 1]
    ELSE IF e.moved
    THEN [e EXCEPT !.gtype = "pinch_drag", !.gstate = "end"]
    ELSE [e EXCEPT !.gtype = "pinch_hold", !.gstate = "end"]

\* IdxRelease without the return to S_IDLE
IdxReleaseKeepState(e) ==
    Then(Then([e EXCEPT !.vel = CalcVel(e.trail)], ReleaseClassify), ResetPinch)

\* update, state S_IDX_PINCH, index finger released
IdxRelease(e) ==
    Then(Then([e EXCEPT !.vel = CalcVel(e.trail)], ReleaseClassify),
         LAMBDA e2 : [ResetPinch(e2) EXCEPT !.state = S_IDLE])

\* update, state S_IDX_PINCH, after dur_ms is set
IdxBranch(e, ix, iy) ==
    IF e.idx_pinched THEN IdxTrack(e, ix, iy) ELSE IdxRelease(e)

StepIdxPinch(e, now, ix, iy) ==
    Then([e EXCEPT !.dur_ms = now - e.pinch_t0], LAMBDA e1 : IdxBranch(e1, ix, iy))

\* Sensed with the cursor following the index tip only while Idle
SensedCursorIdleOnly(e, lm, now, di, dm) ==
    [e EXCEPT !.cursor_x = IF e.state = S_IDLE THEN FineX(lm[INDEX_TIP]) ELSE @,
              !.cursor_y = IF e.state = S_IDLE THEN FineY(lm[INDEX_TIP]) ELSE @,
              !.idx_dist = di, !.mid_dist = dm,
              !.idx_pinched = Hysteresis(e.idx_pinched, di),
              !.mid_pinched = Hysteresis(e.mid_pinched, dm),
              !.trail = TrailAppend(e.trail, <<lm[INDEX_TIP].x, lm[INDEX_TIP].y, now>>),
              !.frame_dx = 0, !.frame_dy = 0]

\* update, lines 330-360, the distances di and dm being computed: cursor,
\* hysteresis, velocity trail, per-frame reset
Sensed(e, lm, now, di, dm) ==
    [e EXCEPT !.cursor_x = FineX(lm[INDEX_TIP]), !.cursor_y = FineY(lm[INDEX_TIP]),
              !.idx_dist = di, !.mid_dist = dm,
              !.idx_pinched = Hysteresis(e.idx_pinched, di),
              !.mid_pinched = Hysteresis(e.mid_pinched, dm),
              !.trail = TrailAppend(e.trail, <<lm[INDEX_TIP].x, lm[INDEX_TIP].y, now>>),
              !.frame_dx = 0, !.frame_dy = 0]

Sense(e, lm, now) ==
    Then(Dist(lm[THUMB_TIP], lm[INDEX_TIP]), LAMBDA di :
        Then(Dist(lm[THUMB_TIP], lm[MIDDLE_TIP]), LAMBDA dm :
            Sensed(e, lm, now, di, dm)))

\* update, lines 362-461: the state machine, on the engine as Sense left
\* it, (ix, iy) being the index tip
Step(e, now, ix, iy) ==
    IF e.state = S_IDLE THEN StepIdle(e, now, ix, iy)
    ELSE IF e.state = S_MID_PINCH THEN StepMidPinch(e, now)
    ELSE IF e.state = S_IDX_PINCH THEN StepIdxPinch(e, now, ix, iy)
    ELSE e

\* GestureEngine.update(lm) at time now, as a function of the engine
UpdateEng(e, lm, now) ==
    Then(Sense(e, lm, now),
         LAMBDA e1 : Step(e1, now, lm[INDEX_TIP].x, lm[INDEX_TIP].y))

\* _payload: the fields of the event that are read downstream.  Lengths in
\* thousandths and durations in ms are left as they are by round(., 5) and
\* round(., 1); vx is frame_dx * 1000, which in thousandths is frame_dx
Payload(e, lm) ==
    [type |-> e.gtype, state |-> e.gstate,
     confidence |-> 1000 - Min(e.idx_dist, e.mid_dist),
     is_pinched |-> e.idx_pinched \/ e.mid_pinched,
     origin |-> [x |-> Round5(e.cursor_x), y |-> Round5(e.cursor_y)],
     current |-> [x |-> Round5(e.cursor_x), y |-> Round5(e.cursor_y)],
     dx |-> e.frame_dx, dy |-> e.frame_dy,
     vx |-> e.frame_dx, vy |-> e.frame_dy,
     duration_ms |-> e.dur_ms, tap_count |-> e.tap_count,
     cursor |-> [x |-> Round5(e.cursor_x), y |-> Round5(e.cursor_y)]]

\* number of landmarks in the list
NumLm(lm) == Cardinality(DOMAIN lm)

\* lm[THUMB_TIP], lm[INDEX_TIP] or lm[MIDDLE_TIP] raises IndexError
Raises(lm) ==
    THUMB_TIP >= NumLm(lm) \/ INDEX_TIP >= NumLm(lm) \/ MIDDLE_TIP >= NumLm(lm)

\* what a call of update(lm) at time now leaves and returns: the engine
\* after it, whether it raised, and the event returned
Outcome(e, lm, now) ==
    IF Raises(lm) THEN [eng |-> e, raised |-> TRUE, payload |-> None]
    ELSE Then(UpdateEng(e, lm, now),
              LAMBDA r : [eng |-> r, raised |-> FALSE, payload |-> Payload(r, lm)])

----------------------------------------------------------------------------
(* GestureHandler of WindowsControl/gesture_handler.py.  An event is a     *)
(* record: has_gesture and has_cursor say whether the keys are there,      *)
(* state "" stands for a gesture without the key "state", cursor, origin   *)
(* and current are points in millionths, vx and vy are in the event's own  *)
(* unit.  Normalised positions inside the handler are exact fractions; the *)
(* source computes them in floating point.                                 *)

SCREEN_WIDTH == 1920      \* config.py default
SCREEN_HEIGHT == 1080     \* config.py default
EDGE_MARGIN == 80         \* 0.08, in thousandths
SMOOTHING_FACTOR == 35    \* 0.35, in hundredths

HANDLED_GESTURES == {"tap", "double_tap", "pinch_hold", "pinch_drag", "pinch_flick"}

RECURSIVE GCD(_, _)
GCD(a, b) == IF b = 0 THEN a ELSE GCD(b, a % b)

\* the fraction n / d in lowest terms, d > 0
Reduce(n, d) == Then(GCD(Abs(n), d), LAMBDA g : Frac(n \div g, d \div g))

\* max(0.0, min(1.0, f))
ClampUnit(f) ==
    IF f.n < 0 THEN Frac(0, 1) ELSE IF f.n > f.d THEN Frac(1, 1) ELSE f

\* a coordinate in millionths as a fraction of the image
Norm(v) == Reduce(v, FINE * 1000)

\* _remap_edge
RemapEdge(f) ==
    ClampUnit(Reduce(f.n * 1000 - EDGE_MARGIN * f.d, (1000 - 2 * EDGE_MARGIN) * f.d))

\* _smooth, one coordinate: s is the smoothed value so far, or None
SmoothOne(s, raw) ==
    IF s = None THEN raw
    ELSE Reduce(SMOOTHING_FACTOR * raw.n * s.d + (100 - SMOOTHING_FACTOR) * s.n * raw.d,
                100 * raw.d * s.d)

\* _norm_to_px, one coordinate: int(max(0.0, min(1.0, f)) * size)
NormToPx(f, size) == Then(ClampUnit(f), LAMBDA c : (c.n * size) \div c.d)

Handler ==
    [frozen |-> frozen, freeze_px |-> freeze_px, freeze_py |-> freeze_py,
     smooth_x |-> smooth_x, smooth_y |-> smooth_y, action_count |-> action_count,
     mouse_x |-> mouse_x, mouse_y |-> mouse_y]

\* GestureHandler.__init__, the pointer being at (mx, my)
InitHandler(mx, my) ==
    [frozen |-> FALSE, freeze_px |-> 0, freeze_py |-> 0,
     smooth_x |-> None, smooth_y |-> None, action_count |-> 0,
     mouse_x |-> mx, mouse_y |-> my]

\* gesture.get("state", "") and gesture.get("type", "none") of handle_cursor,
\* whose gesture defaults to {}
EvState(ev) == IF ev.has_gesture THEN ev.state ELSE ""
EvType(ev) == IF ev.has_gesture THEN ev.type ELSE "none"

\* handle_cursor: remap and smooth the event's cursor
Tracked(h, c) ==
    [h EXCEPT !.smooth_x = SmoothOne(h.smooth_x, RemapEdge(Norm(c.x))),
              !.smooth_y = SmoothOne(h.smooth_y, RemapEdge(Norm(c.y)))]

\* handle_cursor, gesture in progress and not yet frozen: capture the
\* freeze point
Freeze(h, ev) ==
    IF ev.has_cursor
    THEN Then(Tracked(h, ev.cursor), LAMBDA t :
            [t EXCEPT !.frozen = TRUE,
                      !.freeze_px = NormToPx(t.smooth_x, SCREEN_WIDTH),
                      !.freeze_py = NormToPx(t.smooth_y, SCREEN_HEIGHT)])
    ELSE [h EXCEPT !.frozen = TRUE, !.freeze_px = h.mouse_x, !.freeze_py = h.mouse_y]

\* the two tests of handle_cursor
InProgress(ev) == EvState(ev) \in {"start", "active"} /\ EvType(ev) # "none"
Ending(ev) == EvState(ev) \in {"end", "ended", ""} \/ EvType(ev) = "none"

Unfreeze(h, ev) ==
    IF Ending(ev) /\ h.frozen THEN [h EXCEPT !.frozen = FALSE] ELSE h

\* handle_cursor, lines 132-153: pyautogui.moveTo
MoveCursor(h, ev) ==
    IF ~ev.has_cursor THEN h
    ELSE Then(Tracked(h, ev.cursor), LAMBDA t :
            [t EXCEPT !.mouse_x = NormToPx(t.smooth_x, SCREEN_WIDTH),
                      !.mouse_y = NormToPx(t.smooth_y, SCREEN_HEIGHT)])

\* a handle_cursor that follows the hand during a gesture too
HandleCursorNoFreeze(h, ev) ==
    Then(Unfreeze(h, ev), LAMBDA u : MoveCursor(u, ev))

\* GestureHandler.handle_cursor(ev), as a function of the handler
HandleCursorH(h, ev) ==
    IF InProgress(ev) THEN (IF ~h.frozen THEN Freeze(h, ev) ELSE h)
    ELSE Then(Unfreeze(h, ev), LAMBDA u : MoveCursor(u, ev))

\* handle_cursor calls pyautogui.moveTo
CallsMoveTo(ev) == ~InProgress(ev) /\ ev.has_cursor

\* a tool call: the fields a tool does not take are None
ToolCall(tool, x, y, button, clicks, to_x, to_y, direction, amount) ==
    [tool |-> tool, x |-> x, y |-> y, button |-> button, clicks |-> clicks,
     to_x |-> to_x, to_y |-> to_y, direction |-> direction, amount |-> amount]

Click(x, y, button, clicks) ==
    ToolCall("click", x, y, button, clicks, None, None, None, None)

\* a handle_event that acts on a gesture in any state
ActsAnyState(ev) == ev.has_gesture /\ ev.type \in HANDLED_GESTURES

\* handle_event, lines 175-179 and 205-207: the event leads to an action
Acts(ev) ==
    /\ ev.has_gesture
    /\ ev.state \in {"end", "ended"}
    /\ ev.type \in HANDLED_GESTURES

\* handle_event, line 188
UseFrozen(h) == h.frozen \/ (h.freeze_px # 0 /\ h.freeze_py # 0)

\* handle_event, lines 188-194: the normalised point handed to the handlers;
\* the events carry no tracking_data
ActionPoint(h, ev) ==
    IF UseFrozen(h)
    THEN [x |-> Reduce(h.freeze_px, SCREEN_WIDTH), y |-> Reduce(h.freeze_py, SCREEN_HEIGHT)]
    ELSE IF ev.has_cursor THEN [x |-> Norm(ev.cursor.x), y |-> Norm(ev.cursor.y)]
    ELSE [x |-> Frac(1, 2), y |-> Frac(1, 2)]

PxX(f) == NormToPx(f, SCREEN_WIDTH)
PxY(f) == NormToPx(f, SCREEN_HEIGHT)

\* _handle_tap, _handle_double_tap, _handle_pinch_hold
HandleTap(c) == Click(PxX(c.x), PxY(c.y), "left", 1)
HandleDoubleTap(c) == Click(PxX(c.x), PxY(c.y), "left", 2)
HandlePinchHold(c) == Click(PxX(c.x), PxY(c.y), "right", 1)

\* _handle_pinch_drag: origin and current default to the action point
HandlePinchDrag(c, ev) ==
    ToolCall("drag_and_drop",
             IF ev.origin = None THEN PxX(c.x) ELSE PxX(Norm(ev.origin.x)),
             IF ev.origin = None THEN PxY(c.y) ELSE PxY(Norm(ev.origin.y)),
             None, None,
             IF ev.current = None THEN PxX(c.x) ELSE PxX(Norm(ev.current.x)),
             IF ev.current = None THEN PxY(c.y) ELSE PxY(Norm(ev.current.y)),
             None, None)

\* a flick whose vertical component wins only when strictly larger
FlickDirectionStrict(vx, vy) ==
    IF Abs(vy) > Abs(vx) THEN (IF vy > 0 THEN "down" ELSE "up")
    ELSE (IF vx > 0 THEN "right" ELSE "left")

\* _handle_pinch_flick
FlickDirection(vx, vy) ==
    IF Abs(vy) >= Abs(vx) THEN (IF vy > 0 THEN "down" ELSE "up")
    ELSE (IF vx > 0 THEN "right" ELSE "left")

FlickMagnitude(vx, vy) == IF Abs(vy) >= Abs(vx) THEN Abs(vy) ELSE Abs(vx)

FlickAmount(vx, vy) == Max(1, Min(10, FlickMagnitude(vx, vy) \div 200))

HandlePinchFlick(c, ev) ==
    ToolCall("scroll", PxX(c.x), PxY(c.y), None, None, None, None,
             FlickDirection(ev.vx, ev.vy), FlickAmount(ev.vx, ev.vy))

\* handler_map of handle_event
Dispatch(c, ev) ==
    CASE ev.type = "tap" -> HandleTap(c)
      [] ev.type = "double_tap" -> HandleDoubleTap(c)
      [] ev.type = "pinch_hold" -> HandlePinchHold(c)
      [] ev.type = "pinch_drag" -> HandlePinchDrag(c, ev)
      [] ev.type = "pinch_flick" -> HandlePinchFlick(c, ev)

\* _execute_tool: the tool runs only if a tool set provides it
Executes(call, ts) == call.tool \in ts

\* the tools of layers/mcp_client.py leave the pointer where they acted
PointerAfter(h, call) ==
    IF call.tool = "drag_and_drop"
    THEN [h EXCEPT !.mouse_x = call.to_x, !.mouse_y = call.to_y]
    ELSE [h EXCEPT !.mouse_x = call.x, !.mouse_y = call.y]

\* GestureHandler.handle_event(ev): the handler afterwards, what the call
\* returned ("none", "error" or "result"), the tool call requested and
\* whether a tool executed it
HandleEventH(h, ev, ts) ==
    IF ~Acts(ev)
    THEN [h |-> h, returned |-> "none", call |-> None, executed |-> FALSE]
    ELSE Then(Dispatch(ActionPoint(h, ev), ev), LAMBDA call :
           Then([h EXCEPT !.action_count = h.action_count + 1,
                          !.freeze_px = 0, !.freeze_py = 0], LAMBDA c :
             IF Executes(call, ts)
             THEN [h |-> PointerAfter(c, call), returned |-> "result",
                   call |-> call, executed |-> TRUE]
             ELSE [h |-> c, returned |-> "error", call |-> call, executed |-> FALSE]))

----------------------------------------------------------------------------
(* Frames.  A hand is the detector's list of landmarks, indexed from 0;    *)
(* the engine reads only the three finger tips.                            *)

ClockStart == 1000        \* time.monotonic() when the engine is constructed

\* an offset of length d (a multiple of 5), along a 3-4-5 direction
OffA(d) == Pt((3 * d) \div 5, (4 * d) \div 5)
OffB(d) == Pt(0 - (4 * d) \div 5, (3 * d) \div 5)

\* index tip at (x, y), thumb tip di away from it, middle tip dm away from
\* the thumb tip
Hand(x, y, di, dm) ==
    LET index  == Pt(x, y)
        thumb  == Pt(x + OffA(di).x, y + OffA(di).y)
        middle == Pt(thumb.x + OffB(dm).x, thumb.y + OffB(dm).y)
    IN [i \in 0..(NUM_LANDMARKS - 1) |->
          IF i = THUMB_TIP THEN thumb
          ELSE IF i = INDEX_TIP THEN index
          ELSE IF i = MIDDLE_TIP THEN middle
          ELSE Pt(500, 900)]

\* a hand with the three tips at the given places
HandOf(thumb, index, middle) ==
    [i \in 0..(NUM_LANDMARKS - 1) |->
          IF i = THUMB_TIP THEN thumb
          ELSE IF i = INDEX_TIP THEN index
          ELSE IF i = MIDDLE_TIP THEN middle
          ELSE Pt(500, 900)]

\* the thumb tip 1.1 away from the index tip and from the middle tip, all
\* three inside the image
FarHand == HandOf(Pt(100, 50), Pt(760, 930), Pt(980, 710))

\* lm with every landmark (fx, fy) millionths off the grid
Shifted(lm, fx, fy) == [i \in DOMAIN lm |-> [lm[i] EXCEPT !.fx = fx, !.fy = fy]]

\* lm cut or padded to n landmarks
Resized(lm, n) ==
    [i \in 0..(n - 1) |-> IF i \in DOMAIN lm THEN lm[i] ELSE lm[0]]

----------------------------------------------------------------------------
(* ConnectionManager of server.py, one manager of one server instance.     *)
(* A message is the value of _msg_count when ingest took it; its bytes are *)
(* a sequence of JSON tokens.                                              *)

GESTURE_REQUIRED_KEYS == {"event_id", "timestamp", "gesture"}
SPEECH_REQUIRED_KEYS == {"event_id", "timestamp", "speech"}

Brackets == {"{", "}", "[", "]"}

\* the tokens between the first and the last
Inner(raw) == {raw[i] : i \in 2..(Len(raw) - 1)}

Enclosed(raw, open, close) ==
    /\ Len(raw) >= 2
    /\ raw[1] = open
    /\ raw[Len(raw)] = close
    /\ Inner(raw) \cap Brackets = {}

\* orjson.loads: an object with its keys, an array, or JSONDecodeError
JsonLoads(raw) ==
    IF Enclosed(raw, "{", "}") THEN [ok |-> TRUE, kind |-> "object", keys |-> Inner(raw)]
    ELSE IF Enclosed(raw, "[", "]") THEN [ok |-> TRUE, kind |-> "array", keys |-> {}]
    ELSE [ok |-> FALSE, kind |-> "error", keys |-> {}]

\* a validation that takes any JSON value holding the required names
ValidateAnyJson(raw, required) ==
    IF JsonLoads(raw).ok /\ required \subseteq Inner(raw) THEN raw ELSE None

\* validate_gesture / validate_speech: raw itself, or None
Validate(raw, required) ==
    Then(JsonLoads(raw), LAMBDA obj :
       IF ~obj.ok THEN None
       ELSE IF obj.kind # "object" THEN None
       ELSE IF ~(required \subseteq obj.keys) THEN None
       ELSE raw)

ValidateGesture(raw) == Validate(raw, GESTURE_REQUIRED_KEYS)
ValidateSpeech(raw) == Validate(raw, SPEECH_REQUIRED_KEYS)

\* a WebSocket frame as ws.receive() returns it
BytesFrame(data) == [kind |-> "bytes", data |-> data]
TextFrame(data) == [kind |-> "text", data |-> data]

\* str.encode("utf-8"): the tokens are ASCII, one byte string per token
EncodeUtf8(text) == [i \in 1..Len(text) |-> text[i]]

\* ws_gestures / ws_speech, lines 231-236: the bytes of the frame, None for
\* a frame without payload
FrameRaw(frame) ==
    IF frame.data = <<>> THEN None
    ELSE IF frame.kind = "bytes" THEN frame.data
    ELSE EncodeUtf8(frame.data)

\* ws_gestures / ws_speech, lines 238 and 265, of the manager named nm
Validated(nm, frame) ==
    Then(FrameRaw(frame), LAMBDA raw :
       IF raw = None THEN None
       ELSE IF nm = "gesture" THEN ValidateGesture(raw)
       ELSE ValidateSpeech(raw))

Sockets == {"w1", "w2", "w3"}
NoSocket == "none"        \* exclude=None

\* _broadcast_local, line 151
BroadcastTargets(cl, exclude) == {ws \in cl : ws # exclude}

\* _safe_send: the sockets that get the data
Receivers(targets, st) == {ws \in targets : st[ws] = "connected"}

\* _safe_send on a socket in state st whose send_bytes succeeds (ok) or
\* raises, with the exception of send_bytes left uncaught
SafeSendUncaught(st, ok) ==
    IF st = "connected" THEN (IF ok THEN "sent" ELSE "raise") ELSE "stale"

\* _safe_send, lines 155-163: the data is sent, or the socket comes back as
\* stale
SafeSend(st, ok) ==
    IF st = "connected" THEN (IF ok THEN "sent" ELSE "stale") ELSE "stale"

\* the stale sockets taken out with set.remove, which raises KeyError for a
\* socket that is no longer in the set
RemoveStale(cl, stale) == [clients |-> cl \ stale, raised |-> ~(stale \subseteq cl)]

\* lines 166-168: set.discard of every stale socket
DiscardStale(cl, stale) == [clients |-> cl \ stale, raised |-> FALSE]

\* _broadcast_local: the clients afterwards and the sockets sent to
BroadcastLocal(cl, st, exclude) ==
    Then(BroadcastTargets(cl, exclude), LAMBDA targets :
       [clients |-> cl \ (targets \ Receivers(targets, st)),
        received |-> Receivers(targets, st)])

\* ConnectionManager.__init__ and startup of the manager named nm: redis
\* says whether Redis answered
InitManager(nm, redis) ==
    /\ name = nm
    /\ sent = {}
    /\ slast = None
    /\ inflight = {}
    /\ finished = {}
    /\ raised = FALSE
    /\ clients = {}
    /\ use_redis = redis
    /\ msg_count = 0
    /\ client_state = [ws \in Sockets |-> "new"]
    /\ channel = <<>>
    /\ ingested = {}
    /\ delivered = {}

\* gesture_manager, line 171
InitConnectionManager(redis) == InitManager("gesture", redis)

\* GestureWSClient of ws_client.py, as ExecuteMode constructs it: times in
\* 1/64 s, in which every delay of the loop is a whole number
RECONNECT_DELAY == 128        \* reconnect_delay = 2.0
MAX_RECONNECT_DELAY == 1920   \* max_reconnect_delay = 30.0

\* a backoff without the upper limit
NextDelayUncapped(d) == (d * 3) \div 2

\* line 146: min(delay * 1.5, self._max_reconnect_delay)
NextDelay(d) == Min((d * 3) \div 2, MAX_RECONNECT_DELAY)

\* GestureWSClient.__init__; delay is not set before _listen_loop runs
InitGestureWSClient ==
    /\ ws_running = FALSE
    /\ ws_pc = "idle"
    /\ delay = 0
    /\ backoffs = 0
    /\ attempts = 0
    /\ ws_last = "init"

\* the handler as constructed over the tool names ts, pointer at (mx, my)
InitGestureHandler(ts, mx, my) ==
    /\ frozen = FALSE
    /\ freeze_px = 0
    /\ freeze_py = 0
    /\ smooth_x = None
    /\ smooth_y = None
    /\ action_count = 0
    /\ tools = ts
    /\ mouse_x = mx
    /\ mouse_y = my
    /\ hpre = InitHandler(mx, my)
    /\ hlast = None
    /\ nevents = 0
    /\ freeze_point = None
    /\ InitGestureWSClient

\* the tools the handler's actions name: click and scroll and drag_and_drop
\* of layers/mcp_client.py
GestureTools == {"click", "scroll", "drag_and_drop"}

InitGestureEngine ==
    /\ clock = ClockStart
    /\ state = InitEng.state
    /\ idx_pinched = InitEng.idx_pinched
    /\ mid_pinched = InitEng.mid_pinched
    /\ idx_dist = InitEng.idx_dist
    /\ mid_dist = InitEng.mid_dist
    /\ pinch_t0 = InitEng.pinch_t0
    /\ dur_ms = InitEng.dur_ms
    /\ prev_palm = InitEng.prev_palm
    /\ frame_dx = InitEng.frame_dx
    /\ frame_dy = InitEng.frame_dy
    /\ cum_move = InitEng.cum_move
    /\ moved = InitEng.moved
    /\ trail = InitEng.trail
    /\ vel = InitEng.vel
    /\ tap_count = InitEng.tap_count
    /\ gtype = InitEng.gtype
    /\ gstate = InitEng.gstate
    /\ cursor_x = InitEng.cursor_x
    /\ cursor_y = InitEng.cursor_y
    /\ dbl_cooldown_until = InitEng.dbl_cooldown_until
    /\ pre = InitEng
    /\ nframes = 0
    /\ pinch_path = <<>>
    /\ hist = <<>>
    /\ calls = <<>>

Init ==
    /\ InitGestureEngine
    /\ InitGestureHandler(GestureTools, SCREEN_WIDTH \div 2, SCREEN_HEIGHT \div 2)
    /\ InitConnectionManager(FALSE)

\* history: the index-tip positions of the frames of the index pinch, from
\* the frame that entered it to the last frame with the index still pinched
PathAfter(old, r) ==
    IF r.state # S_IDX_PINCH THEN pinch_path
    ELSE IF old.state # S_IDX_PINCH
    THEN << <<r.cursor_x \div FINE, r.cursor_y \div FINE>> >>
    ELSE Append(pinch_path, <<r.cursor_x \div FINE, r.cursor_y \div FINE>>)

\* history: what the call at time now did, old being the engine before it
\* and o its outcome
CallRecord(old, o, lm, now) ==
    [now |-> now, nlm |-> NumLm(lm), raised |-> o.raised, payload |-> o.payload,
     tip |-> IF INDEX_TIP < NumLm(lm)
             THEN [x |-> FineX(lm[INDEX_TIP]), y |-> FineY(lm[INDEX_TIP])]
             ELSE None]

\* history: what a frame at time now did, old being the engine before it and
\* r the engine after it
FrameRecord(old, r, now) ==
    [now |-> now, from |-> old.state, to |-> r.state,
     gtype |-> r.gtype, gstate |-> r.gstate, dur_ms |-> r.dur_ms,
     idx_dist |-> r.idx_dist, idx_was |-> old.idx_pinched,
     idx_pinched |-> r.idx_pinched,
     mid_dist |-> r.mid_dist, mid_was |-> old.mid_pinched,
     mid_pinched |-> r.mid_pinched]

\* the engine's part of one pass of the capture loop: the clock has advanced
\* by dt, the detector delivers lm, and the engine processes it; at most
\* maxf passes
UpdateEngine(lm, dt, maxf) ==
    /\ nframes < maxf
    /\ \E o \in {Outcome(Eng, lm, clock + dt)} : \E r \in {o.eng} :
       /\ clock' = clock + dt
       /\ state' = r.state
       /\ idx_pinched' = r.idx_pinched
       /\ mid_pinched' = r.mid_pinched
       /\ idx_dist' = r.idx_dist
       /\ mid_dist' = r.mid_dist
       /\ pinch_t0' = r.pinch_t0
       /\ dur_ms' = r.dur_ms
       /\ prev_palm' = r.prev_palm
       /\ frame_dx' = r.frame_dx
       /\ frame_dy' = r.frame_dy
       /\ cum_move' = r.cum_move
       /\ moved' = r.moved
       /\ trail' = r.trail
       /\ vel' = r.vel
       /\ tap_count' = r.tap_count
       /\ gtype' = r.gtype
       /\ gstate' = r.gstate
       /\ cursor_x' = r.cursor_x
       /\ cursor_y' = r.cursor_y
       /\ dbl_cooldown_until' = r.dbl_cooldown_until
       /\ pre' = Eng
       /\ nframes' = nframes + 1
       /\ pinch_path' = IF o.raised THEN pinch_path ELSE PathAfter(Eng, r)
       /\ hist' = Append(hist, FrameRecord(Eng, r, clock + dt))
       /\ calls' = Append(calls, CallRecord(Eng, o, lm, clock + dt))

\* one pass of the capture loop, the event going nowhere
Update(lm, dt, maxf) == UpdateEngine(lm, dt, maxf) /\ UNCHANGED <<hvars, svars>>

----------------------------------------------------------------------------
(* Specification Spec: index-finger gestures.  The hand rests, creeps by   *)
(* 30 or jumps by 800 along x while the index channel closes and opens;    *)
(* the middle channel is open, or closed with the hand at rest.            *)

MaxFrames == 4
IdxDts == {33, 200}
IdxPoses ==
    {<<x, di, 100>> : x \in {100, 130, 900}, di \in {20, 100}} \cup {<<100, 100, 20>>}

Next ==
    \E dt \in IdxDts, p \in IdxPoses :
        \E lm \in {Hand(p[1], 500, p[2], p[3])} : Update(lm, dt, MaxFrames)

Spec == Init /\ [][Next]_vars

----------------------------------------------------------------------------
(* Specification SpecMid: middle-finger gestures and the cooldown.  The    *)
(* hand is at rest, both channels close and open.                          *)

MaxFramesMid == 5
MidDts == {33, 200}
MidGaps == {20, 100}

NextMid ==
    \E dt \in MidDts, di \in MidGaps, dm \in MidGaps :
        \E lm \in {Hand(100, 500, di, dm)} : Update(lm, dt, MaxFramesMid)

SpecMid == Init /\ [][NextMid]_vars

----------------------------------------------------------------------------
(* Specification SpecHyst: the two channels at, inside and around the      *)
(* hysteresis band.                                                        *)

MaxFramesHyst == 3
HystIdxGaps == {20, 40, 45, 50, 100}
HystMidGaps == {20, 40, 50, 100}

NextHyst ==
    \E di \in HystIdxGaps, dm \in HystMidGaps :
        \E lm \in {Hand(100, 500, di, dm)} : Update(lm, 33, MaxFramesHyst)

SpecHyst == Init /\ [][NextHyst]_vars

----------------------------------------------------------------------------
(* Specification SpecBand: one channel fed a sequence of distances.        *)

MaxFramesBand == 4
BandGaps == {20, 40, 45, 50, 60, 100}

\* the thumb-index distance varies, the middle finger stays away
BandIdx ==
    \E d \in BandGaps :
        \E lm \in {Hand(100, 500, d, 100)} : Update(lm, 33, MaxFramesBand)

\* the thumb-middle distance varies, the index finger stays away
BandMid ==
    \E d \in BandGaps :
        \E lm \in {Hand(100, 500, 100, d)} : Update(lm, 33, MaxFramesBand)

NextBand == BandIdx \/ BandMid

SpecBand == Init /\ [][NextBand]_vars

----------------------------------------------------------------------------
(* Specification SpecCool: frames 100 or 200 ms apart, so that a frame can *)
(* fall exactly on the cooldown deadline.                                  *)

MaxFramesCool == 4
CoolDts == {100, 200}

NextCool ==
    \E dt \in CoolDts, di \in MidGaps, dm \in MidGaps :
        \E lm \in {Hand(100, 500, di, dm)} : Update(lm, dt, MaxFramesCool)

SpecCool == Init /\ [][NextCool]_vars

----------------------------------------------------------------------------
(* Specification SpecHold: an index pinch that is held or dragged, frames  *)
(* 100 or 200 ms apart, so that a frame can fall exactly 500 ms after the  *)
(* pinch started.  The pinched hand rests, creeps by 30 or jumps by 60.    *)

MaxFramesHold == 4
HoldDts == {100, 200}
HoldPoses == {<<100, 20>>, <<130, 20>>, <<160, 20>>, <<100, 100>>}

NextHold ==
    \E dt \in HoldDts, p \in HoldPoses :
        \E lm \in {Hand(p[1], 500, p[2], 100)} : Update(lm, dt, MaxFramesHold)

SpecHold == Init /\ [][NextHold]_vars

----------------------------------------------------------------------------
(* Specification SpecVel: the velocity estimator.  Frames 3 or 60 ms       *)
(* apart, so that the trail of a pinch has samples less than 10 ms, less   *)
(* than 100 ms and more than 100 ms old; the pinched hand rests at 100 or  *)
(* at 400 and is released at 400.                                          *)

MaxFramesVel == 4
VelDts == {3, 60}
VelPoses == {<<100, 20>>, <<400, 20>>, <<400, 100>>}

NextVel ==
    \E dt \in VelDts, p \in VelPoses :
        \E lm \in {Hand(p[1], 500, p[2], 100)} : Update(lm, dt, MaxFramesVel)

SpecVel == Init /\ [][NextVel]_vars

----------------------------------------------------------------------------
(* Specification SpecTrail: runs long enough to fill the velocity trail.   *)
(* The index finger pinches at 100 or is open at 130, every 33 ms.         *)

MaxFramesTrail == 14
TrailPoses == {<<100, 20>>, <<130, 100>>}

NextTrail ==
    \E p \in TrailPoses :
        \E lm \in {Hand(p[1], 500, p[2], 100)} : Update(lm, 33, MaxFramesTrail)

SpecTrail == Init /\ [][NextTrail]_vars

----------------------------------------------------------------------------
(* Specification SpecPayload: the call and the event it returns.  Hands    *)
(* on and off the grid, pinching, moving and spread wide, and landmark     *)
(* lists that are too short or too long.                                   *)

MaxFramesPayload == 4
PayloadPoses == {<<100, 20, 100>>, <<130, 20, 100>>, <<100, 100, 100>>, <<100, 100, 20>>}
PayloadHands == {Hand(p[1], 500, p[2], p[3]) : p \in PayloadPoses} \cup {FarHand}
Offsets == {<<0, 0>>, <<4, 6>>}
BadLens == {8, 12, 13, 22}

\* the offset of a behaviour is chosen with its first frame
CurrentOffsets ==
    IF nframes = 0 THEN Offsets ELSE {<<cursor_x % FINE, cursor_y % FINE>>}

\* the detector delivers 21 landmarks
FrameWellFormed ==
    \E h \in PayloadHands, off \in CurrentOffsets :
        \E lm \in {Shifted(h, off[1], off[2])} : Update(lm, 33, MaxFramesPayload)

\* update is called with a list of another length
FrameMalformed ==
    \E n \in BadLens, off \in CurrentOffsets :
        \E lm \in {Resized(Shifted(Hand(100, 500, 20, 100), off[1], off[2]), n)} :
            Update(lm, 33, MaxFramesPayload)

NextPayload == FrameWellFormed \/ FrameMalformed

SpecPayload == Init /\ [][NextPayload]_vars

----------------------------------------------------------------------------
(* Properties of the index-finger gestures, checked under Spec *)

\* length of the polyline through the first k points of path p
RECURSIVE PathLenUpTo(_, _)
PathLenUpTo(p, k) ==
    IF k < 2 THEN 0
    ELSE Dist(Pt(p[k - 1][1], p[k - 1][2]), Pt(p[k][1], p[k][2])) + PathLenUpTo(p, k - 1)

PathLen(p) == PathLenUpTo(p, Len(p))

\* the last frame found the engine in the index pinch and the index channel
\* is unpinched after it
IdxReleased == nframes > 0 /\ pre.state = S_IDX_PINCH /\ ~idx_pinched

\* the last frame found the engine in the index pinch and the index channel
\* is still pinched after it
IdxTracked == nframes > 0 /\ pre.state = S_IDX_PINCH /\ idx_pinched

Classified(t, ph) == gtype = t /\ gstate = ph

\* C1 (tap law): an index release less than 200 ms after pinch_start, with
\* less than 0.05 travelled along the pinch, is classified (tap, end) with
\* tap_count 1
TapLaw ==
    (IdxReleased /\ clock - pre.pinch_t0 < TAP_MAX_TIME
        /\ PathLen(pinch_path) < DRAG_DEADZONE)
    => (Classified("tap", "end") /\ tap_count = 1)

\* a tap after three pinched frames 33 ms apart in which the hand crept
TapLawWitness ==
    /\ IdxReleased
    /\ clock - pre.pinch_t0 = 99
    /\ Len(pinch_path) = 3
    /\ PathLen(pinch_path) = 30
    /\ Classified("tap", "end")
    /\ tap_count = 1

\* C2 (flick precedence): an index release with has_moved and a windowed
\* velocity above 0.30 is classified (pinch_flick, end), whatever the duration
FlickPrecedence ==
    (IdxReleased /\ pre.moved /\ FracGT(vel, FLICK_VELOCITY))
    => Classified("pinch_flick", "end")

\* a flick whose duration is below the tap threshold
FlickPrecedenceWitness ==
    /\ IdxReleased
    /\ pre.moved
    /\ FracGT(vel, FLICK_VELOCITY)
    /\ clock - pre.pinch_t0 < TAP_MAX_TIME
    /\ Classified("pinch_flick", "end")

\* C4 (sticky drag): once the path of the pinch is longer than 0.05, every
\* later frame with the index still pinched is (pinch_drag, active) and
\* has_moved stays true
StickyDrag ==
    (IdxTracked /\ Len(pinch_path) >= 2
        /\ PathLenUpTo(pinch_path, Len(pinch_path) - 1) > DRAG_DEADZONE)
    => (Classified("pinch_drag", "active") /\ moved /\ state = S_IDX_PINCH)

\* a frame without displacement, more than 500 ms into a pinch that moved
StickyDragWitness ==
    /\ IdxTracked
    /\ Len(pinch_path) >= 2
    /\ PathLenUpTo(pinch_path, Len(pinch_path) - 1) > DRAG_DEADZONE
    /\ frame_dx = 0
    /\ frame_dy = 0
    /\ dur_ms > HOLD_MIN_MS
    /\ Classified("pinch_drag", "active")

\* C10 (drag end): an index release with has_moved and a windowed velocity
\* not above 0.30 is classified (pinch_drag, end), also for a short pinch
DragEnd ==
    (IdxReleased /\ pre.moved /\ ~FracGT(vel, FLICK_VELOCITY))
    => Classified("pinch_drag", "end")

\* a pinch of 99 ms with 0.06 travelled, released as a drag
DragEndWitness ==
    /\ IdxReleased
    /\ pre.moved
    /\ PathLen(pinch_path) = 60
    /\ clock - pre.pinch_t0 < TAP_MAX_TIME
    /\ Classified("pinch_drag", "end")

----------------------------------------------------------------------------
(* Properties of the middle-finger gesture and the cooldown, checked under *)
(* SpecMid                                                                 *)

\* the frames before the last one that emitted (double_tap, end)
EarlierDoubleTaps ==
    {i \in 1..(Len(hist) - 1) : hist[i].gtype = "double_tap" /\ hist[i].gstate = "end"}

\* the last frame came less than 300 ms after an earlier (double_tap, end)
InCooldownWindow ==
    \E i \in EarlierDoubleTaps : clock < hist[i].now + DOUBLE_TAP_COOL

\* the last frame entered the index pinch
EnteredIdxPinch == nframes > 0 /\ pre.state # S_IDX_PINCH /\ state = S_IDX_PINCH

\* the last frame found the engine in the middle pinch and the middle
\* channel is unpinched after it
MidReleased == nframes > 0 /\ pre.state = S_MID_PINCH /\ ~mid_pinched

\* C3 as claimed: less than 300 ms after a (double_tap, end) no frame enters
\* the index pinch, and every frame with the middle channel unpinched
\* leaves the engine Idle with (none, idle)
GhostSuppressionEveryFrame ==
    InCooldownWindow
    => /\ ~EnteredIdxPinch
       /\ ~mid_pinched => (state = S_IDLE /\ Classified("none", "idle"))

\* C3 amended: less than 300 ms after a (double_tap, end) no frame enters the
\* index pinch, and every frame that finds the engine Idle with the middle
\* channel unpinched leaves it Idle with (none, idle)
GhostSuppression ==
    InCooldownWindow
    => /\ ~EnteredIdxPinch
       /\ (pre.state = S_IDLE /\ ~mid_pinched)
            => (state = S_IDLE /\ Classified("none", "idle"))

\* an index pinch ignored inside the window
GhostSuppressionWitness ==
    /\ InCooldownWindow
    /\ pre.state = S_IDLE
    /\ idx_pinched
    /\ ~mid_pinched
    /\ state = S_IDLE
    /\ Classified("none", "idle")

\* C7 (middle priority): a frame that finds the engine Idle and leaves both
\* channels pinched enters the middle pinch with (double_tap, start)
MiddlePriority ==
    (nframes > 0 /\ pre.state = S_IDLE /\ mid_pinched /\ idx_pinched)
    => (state = S_MID_PINCH /\ Classified("double_tap", "start"))

\* both channels pinched with no cooldown standing in the index's way
MiddlePriorityWitness ==
    /\ nframes > 0
    /\ pre.state = S_IDLE
    /\ mid_pinched
    /\ idx_pinched
    /\ clock > dbl_cooldown_until
    /\ state = S_MID_PINCH

\* C8 (successful double-tap): a middle release less than 200 ms after
\* pinch_start is (double_tap, end) with tap_count 2, sets the cooldown
\* deadline to now + 300 ms and leaves the engine Idle
SuccessfulDoubleTap ==
    (MidReleased /\ clock - pre.pinch_t0 < TAP_MAX_TIME)
    => /\ Classified("double_tap", "end")
       /\ tap_count = 2
       /\ dbl_cooldown_until = clock + DOUBLE_TAP_COOL
       /\ state = S_IDLE

\* a double-tap after two frames of middle pinch
SuccessfulDoubleTapWitness ==
    /\ MidReleased
    /\ clock - pre.pinch_t0 = 66
    /\ Classified("double_tap", "end")
    /\ dbl_cooldown_until = clock + DOUBLE_TAP_COOL

\* the frame before the last one released a middle pinch held 200 ms or more
AfterDiscardedMidHold ==
    /\ Len(hist) >= 2
    /\ hist[Len(hist) - 1].from = S_MID_PINCH
    /\ ~hist[Len(hist) - 1].mid_pinched
    /\ hist[Len(hist) - 1].dur_ms >= TAP_MAX_TIME

\* a middle release 200 ms or more after pinch_start is (none, idle), leaves
\* the engine Idle and the cooldown deadline as it was
DiscardedMidHoldFrame ==
    (MidReleased /\ clock - pre.pinch_t0 >= TAP_MAX_TIME)
    => /\ Classified("none", "idle")
       /\ state = S_IDLE
       /\ dbl_cooldown_until = pre.dbl_cooldown_until

----------------------------------------------------------------------------
(* Properties of the pinch channels: the function checked under SpecHyst,  *)
(* the sequences under SpecBand                                            *)

\* the claimed table for one channel: flag was before the frame, d is the
\* frame's distance, is the flag after it
HystLaw(was, d, is) ==
    /\ (~was /\ d < PINCH_DIST) => is
    /\ (was /\ d > PINCH_EXIT) => ~is
    /\ ~((~was /\ d < PINCH_DIST) \/ (was /\ d > PINCH_EXIT)) => (is = was)

\* C6 (hysteresis function): after every frame each channel's flag is the
\* table's value for its own previous flag and its own distance, whatever
\* the other channel's distance and the engine state are
HysteresisFunction ==
    nframes > 0
    => /\ HystLaw(pre.idx_pinched, idx_dist, idx_pinched)
       /\ HystLaw(pre.mid_pinched, mid_dist, mid_pinched)

\* both thresholds met exactly, in the index pinch: the index flag stays
\* true at 0.05 and the middle flag stays false at 0.04
HysteresisFunctionWitness ==
    /\ nframes > 0
    /\ pre.state = S_IDX_PINCH
    /\ pre.idx_pinched /\ idx_dist = PINCH_EXIT /\ idx_pinched
    /\ ~pre.mid_pinched /\ mid_dist = PINCH_DIST /\ ~mid_pinched

Channels == {"idx", "mid"}

ChanDist(ch, m) == IF ch = "idx" THEN hist[m].idx_dist ELSE hist[m].mid_dist
ChanWas(ch, m) == IF ch = "idx" THEN hist[m].idx_was ELSE hist[m].mid_was
ChanIs(ch, m) == IF ch = "idx" THEN hist[m].idx_pinched ELSE hist[m].mid_pinched

\* the distances of frames i..j rise (weakly) up to some frame and fall
\* (weakly) after it
RiseThenFall(ch, i, j) ==
    \E k \in i..j : \A m \in i..(j - 1) :
        IF m < k THEN ChanDist(ch, m) <= ChanDist(ch, m + 1)
        ELSE ChanDist(ch, m) >= ChanDist(ch, m + 1)

\* how often consecutive frames of i..j lie on different sides of ENTER
EnterCrossings(ch, i, j) ==
    Cardinality({m \in i..(j - 1) :
        (ChanDist(ch, m) < PINCH_DIST) # (ChanDist(ch, m + 1) < PINCH_DIST)})

\* how often consecutive frames of i..j lie on different sides of EXIT
ExitCrossings(ch, i, j) ==
    Cardinality({m \in i..(j - 1) :
        (ChanDist(ch, m) > PINCH_EXIT) # (ChanDist(ch, m + 1) > PINCH_EXIT)})

\* how often the flag changed on the frames i..j
FlagChanges(ch, i, j) ==
    Cardinality({m \in i..j : ChanWas(ch, m) # ChanIs(ch, m)})

\* C5 (hysteresis stability): over every run of frames whose distances rise
\* then fall and cross ENTER once and EXIT once, a channel's flag changes at
\* most twice; and it never changes on a frame whose distance is in
\* [0.04, 0.05]
HysteresisStability ==
    \A ch \in Channels :
        /\ \A i \in 1..Len(hist) :
              (/\ RiseThenFall(ch, i, Len(hist))
               /\ EnterCrossings(ch, i, Len(hist)) = 1
               /\ ExitCrossings(ch, i, Len(hist)) = 1)
              => FlagChanges(ch, i, Len(hist)) <= 2
        /\ \A m \in 1..Len(hist) :
              (PINCH_DIST <= ChanDist(ch, m) /\ ChanDist(ch, m) <= PINCH_EXIT)
              => ChanWas(ch, m) = ChanIs(ch, m)

\* the middle channel fed 0.02, 0.045, 0.10, 0.06: the flag changes on the
\* first and the third frame and not on the frame inside the band
HysteresisStabilityWitness ==
    /\ Len(hist) = 4
    /\ \A m \in 1..4 : ChanDist("mid", m) = <<20, 45, 100, 60>>[m]
    /\ RiseThenFall("mid", 1, 4)
    /\ EnterCrossings("mid", 1, 4) = 1
    /\ ExitCrossings("mid", 1, 4) = 1
    /\ FlagChanges("mid", 1, 4) = 2
    /\ ~mid_pinched

----------------------------------------------------------------------------
(* Calls of the handler.  The events are those of the gesture stream: a    *)
(* gesture of some type and state, with or without a cursor, or an         *)
(* envelope without a gesture.                                             *)

Event(type, st, cursor) ==
    [has_gesture |-> TRUE, type |-> type, state |-> st,
     has_cursor |-> cursor # None, cursor |-> cursor,
     origin |-> None, current |-> None, vx |-> 0, vy |-> 0]

NoGesture(cursor) ==
    [has_gesture |-> FALSE, type |-> "none", state |-> "",
     has_cursor |-> cursor # None, cursor |-> cursor,
     origin |-> None, current |-> None, vx |-> 0, vy |-> 0]

Dragged(ev, origin, current) == [ev EXCEPT !.origin = origin, !.current = current]
Flicked(ev, vx, vy) == [ev EXCEPT !.vx = vx, !.vy = vy]

SetHandler(r) ==
    /\ frozen' = r.frozen
    /\ freeze_px' = r.freeze_px
    /\ freeze_py' = r.freeze_py
    /\ smooth_x' = r.smooth_x
    /\ smooth_y' = r.smooth_y
    /\ action_count' = r.action_count
    /\ mouse_x' = r.mouse_x
    /\ mouse_y' = r.mouse_y

\* history: the freeze point of the running gesture after handle_cursor(ev)
\* took the handler from h to r: captured when the gesture freezes the
\* cursor, kept while the gesture runs, gone with the gesture
PointAfterCursor(h, r, ev, p) ==
    IF ~InProgress(ev) THEN None
    ELSE IF ~h.frozen THEN <<r.freeze_px, r.freeze_py>>
    ELSE p

\* history: the freeze point after handle_event(ev)
PointAfterEvent(ev, p) == IF Acts(ev) THEN None ELSE p

\* one call of handle_cursor
HandleCursor(ev, maxn) ==
    /\ nevents < maxn
    /\ \E r \in {HandleCursorH(Handler, ev)} :
       /\ SetHandler(r)
       /\ hpre' = Handler
       /\ hlast' = [op |-> "handle_cursor", ev |-> ev, returned |-> "none",
                    call |-> None, executed |-> FALSE, moved |-> CallsMoveTo(ev),
                    point |-> freeze_point]
       /\ nevents' = nevents + 1
       /\ freeze_point' = PointAfterCursor(Handler, r, ev, freeze_point)
       /\ UNCHANGED <<evars, tools, wvars, svars>>

\* one call of handle_event
HandleEvent(ev, maxn) ==
    /\ nevents < maxn
    /\ \E o \in {HandleEventH(Handler, ev, tools)} :
       /\ SetHandler(o.h)
       /\ hpre' = Handler
       /\ hlast' = [op |-> "handle_event", ev |-> ev, returned |-> o.returned,
                    call |-> o.call, executed |-> o.executed, moved |-> FALSE,
                    point |-> freeze_point]
       /\ nevents' = nevents + 1
       /\ freeze_point' = PointAfterEvent(ev, freeze_point)
       /\ UNCHANGED <<evars, tools, wvars, svars>>

\* the event the stream carries for the payload p of the engine
EventOf(p) ==
    [has_gesture |-> TRUE, type |-> p.type, state |-> p.state,
     has_cursor |-> TRUE, cursor |-> p.cursor,
     origin |-> p.origin, current |-> p.current, vx |-> p.vx, vy |-> p.vy]

\* ExecuteMode._on_gesture(ev): handle_cursor, then handle_event
OnGesture(ev) ==
    \E r \in {HandleCursorH(Handler, ev)} :
       \E o \in {HandleEventH(r, ev, tools)} :
          /\ SetHandler(o.h)
          /\ hpre' = Handler
          /\ hlast' = [op |-> "on_gesture", ev |-> ev, returned |-> o.returned,
                       call |-> o.call, executed |-> o.executed,
                       moved |-> CallsMoveTo(ev), point |-> freeze_point]
          /\ nevents' = nevents + 1
          /\ freeze_point' =
                PointAfterEvent(ev, PointAfterCursor(Handler, r, ev, freeze_point))
          /\ UNCHANGED <<tools, wvars>>

\* one pass of the capture loop with the event delivered to the handler
Stream(lm, dt, maxf) ==
    /\ UpdateEngine(lm, dt, maxf)
    /\ \E o \in {Outcome(Eng, lm, clock + dt)} : OnGesture(EventOf(o.payload))
    /\ UNCHANGED svars

----------------------------------------------------------------------------
(* Specification SpecHandler: the handler alone.  The pointer starts in    *)
(* the middle of the screen or on its left edge; the UI automation layer   *)
(* that provides click, scroll and drag_and_drop is there or failed to     *)
(* start.  The cursors remap to quarters of the screen.                    *)

MaxHandlerSteps == 3
CursorA == [x |-> 500000, y |-> 500000]
CursorB == [x |-> 290000, y |-> 710000]

CursorEvents ==
    {Event(t, st, c) : t \in {"none", "pinch_drag"}, st \in {"idle", "active"},
                       c \in {CursorB, None}}
    \cup {Event("pinch_drag", "start", CursorA), Event("tap", "end", CursorA),
          Event("tap", "idle", CursorB), NoGesture(CursorB)}

GestureEvents ==
    {Event(t, "end", CursorA) : t \in HANDLED_GESTURES \cup {"none", "swipe"}}
    \cup {Event("tap", "ended", None), Event("tap", "active", CursorA),
          Event("tap", "", CursorA), NoGesture(CursorA),
          Dragged(Event("pinch_drag", "end", CursorB), CursorA, CursorB),
          Flicked(Event("pinch_flick", "end", CursorA), 30, -800),
          Flicked(Event("pinch_flick", "end", CursorA), 450, 100),
          Flicked(Event("pinch_flick", "end", CursorA), -2400, 0),
          Flicked(Event("pinch_flick", "end", CursorA), -2600, 2600)}

InitHandlerSpec ==
    /\ InitGestureEngine
    /\ \E ts \in {GestureTools, {}} : \E m \in {<<960, 540>>, <<0, 300>>} :
          InitGestureHandler(ts, m[1], m[2])
    /\ InitConnectionManager(FALSE)

CursorCall == \E ev \in CursorEvents : HandleCursor(ev, MaxHandlerSteps)
EventCall == \E ev \in GestureEvents : HandleEvent(ev, MaxHandlerSteps)

NextHandler == CursorCall \/ EventCall

SpecHandler == InitHandlerSpec /\ [][NextHandler]_vars

----------------------------------------------------------------------------
(* Specification SpecStream: the engine's events delivered to the handler. *)
(* The index finger pinches and opens with the hand at the left edge of    *)
(* the image (0.05), in the middle (0.50) or right of it (0.71).           *)

MaxFramesStream == 3
StreamDts == {33, 200}
StreamPoses ==
    {<<x, 20>> : x \in {50, 500, 710}} \cup {<<x, 100>> : x \in {50, 710}}

NextStream ==
    \E dt \in StreamDts, p \in StreamPoses :
        \E lm \in {Hand(p[1], 500, p[2], 100)} : Stream(lm, dt, MaxFramesStream)

SpecStream == Init /\ [][NextStream]_vars

----------------------------------------------------------------------------
(* Specification SpecBackoff: the listener of one endpoint.  The server    *)
(* accepts or refuses a connection, the connection ends with or without an *)
(* error, the retry sleep runs out, and the client is stopped at any time. *)

MaxAttempts == 12

\* the rest of the handler while the listener takes a step
ListenerOnly ==
    UNCHANGED <<frozen, freeze_px, freeze_py, smooth_x, smooth_y, action_count, tools,
                mouse_x, mouse_y, hpre, hlast, nevents, freeze_point, evars, svars>>

\* GestureWSClient.run: _running is set and the listener task starts with
\* delay = self._reconnect_delay (line 99)
Run ==
    /\ ws_pc = "idle"
    /\ ws_running' = TRUE
    /\ ws_pc' = "connecting"
    /\ delay' = RECONNECT_DELAY
    /\ UNCHANGED <<backoffs, attempts>>
    /\ ws_last' = "run"
    /\ ListenerOnly

\* websockets.connect succeeds: lines 101-112
Connected ==
    /\ ws_pc = "connecting"
    /\ attempts < MaxAttempts
    /\ ws_pc' = "listening"
    /\ delay' = RECONNECT_DELAY
    /\ backoffs' = 0
    /\ attempts' = attempts + 1
    /\ UNCHANGED ws_running
    /\ ws_last' = "connected"
    /\ ListenerOnly

\* websockets.connect raises: lines 137-144, up to the sleep
ConnectFails ==
    /\ ws_pc = "connecting"
    /\ attempts < MaxAttempts
    /\ ws_pc' = IF ws_running THEN "sleeping" ELSE "stopped"
    /\ attempts' = attempts + 1
    /\ UNCHANGED <<ws_running, delay, backoffs>>
    /\ ws_last' = "connect fails"
    /\ ListenerOnly

\* the connection breaks while the loop reads: the same except clause
ConnectionLost ==
    /\ ws_pc = "listening"
    /\ ws_pc' = IF ws_running THEN "sleeping" ELSE "stopped"
    /\ UNCHANGED <<ws_running, delay, backoffs, attempts>>
    /\ ws_last' = "connection lost"
    /\ ListenerOnly

\* the server closes the connection in order: the async for ends and the
\* while loop goes round
ConnectionClosed ==
    /\ ws_pc = "listening"
    /\ ws_pc' = IF ws_running THEN "connecting" ELSE "stopped"
    /\ UNCHANGED <<ws_running, delay, backoffs, attempts>>
    /\ ws_last' = "connection closed"
    /\ ListenerOnly

\* asyncio.sleep(delay) returns: line 146 and the test of the while loop
Wake ==
    /\ ws_pc = "sleeping"
    /\ delay' = NextDelay(delay)
    /\ backoffs' = backoffs + 1
    /\ ws_pc' = IF ws_running THEN "connecting" ELSE "stopped"
    /\ UNCHANGED <<ws_running, attempts>>
    /\ ws_last' = "wake"
    /\ ListenerOnly

\* GestureWSClient.stop: _running is cleared and the task is cancelled
Stop ==
    /\ ws_running
    /\ ws_running' = FALSE
    /\ ws_pc' = "stopped"
    /\ UNCHANGED <<delay, backoffs, attempts>>
    /\ ws_last' = "stop"
    /\ ListenerOnly

InitBackoff ==
    /\ InitGestureEngine
    /\ InitGestureHandler(GestureTools, SCREEN_WIDTH \div 2, SCREEN_HEIGHT \div 2)
    /\ InitConnectionManager(FALSE)

NextBackoff ==
    \/ Run
    \/ Connected
    \/ ConnectFails
    \/ ConnectionLost
    \/ ConnectionClosed
    \/ Wake
    \/ Stop

\* asyncio.sleep returns after its delay
SpecBackoff == InitBackoff /\ [][NextBackoff]_vars /\ WF_vars(Wake)

----------------------------------------------------------------------------
(* Specification SpecServer: one ConnectionManager.  Sockets connect, send *)
(* messages, go away and are forgotten; Redis answered at startup or did   *)
(* not.                                                                    *)

MaxMessages == 2

\* the frames the sockets send: gesture and speech events as bytes and as
\* text, with the names in any order and a name more; an event cut short,
\* an array of the names, an event without timestamp, a frame without
\* payload
Frames ==
    {BytesFrame(<<"{", "event_id", "timestamp", "gesture", "}">>),
     TextFrame(<<"{", "gesture", "source", "timestamp", "event_id", "}">>),
     BytesFrame(<<"{", "event_id", "timestamp", "speech", "}">>),
     BytesFrame(<<"{", "event_id", "timestamp", "gesture">>),
     TextFrame(<<"[", "event_id", "timestamp", "gesture", "speech", "]">>),
     BytesFrame(<<"{", "event_id", "gesture", "speech", "}">>),
     TextFrame(<<>>)}

\* the step op of socket ws on frame, and the manager as the step found it
ServerStep(op, ws, frame) ==
    [op |-> op, ws |-> ws, frame |-> frame, msg_count |-> msg_count,
     clients |-> clients, client_state |-> client_state, sent |-> sent,
     channel |-> channel]

\* ConnectionManager.connect
Connect(ws) ==
    /\ client_state[ws] = "new"
    /\ client_state' = [client_state EXCEPT ![ws] = "connected"]
    /\ clients' = clients \cup {ws}
    /\ slast' = None
    /\ UNCHANGED <<use_redis, msg_count, channel, ingested, delivered, name, sent,
                   bvars,
                   evars, hvars>>

\* the peer closes the socket
PeerCloses(ws) ==
    /\ client_state[ws] = "connected"
    /\ client_state' = [client_state EXCEPT ![ws] = "closed"]
    /\ slast' = None
    /\ UNCHANGED <<clients, use_redis, msg_count, channel, ingested, delivered, name,
                   sent, bvars,
                   evars, hvars>>

\* ConnectionManager.disconnect, called when the endpoint's receive fails
Disconnect(ws) ==
    /\ client_state[ws] = "closed"
    /\ ws \in clients
    /\ clients' = clients \ {ws}
    /\ slast' = None
    /\ UNCHANGED <<use_redis, msg_count, client_state, channel, ingested, delivered,
                   name, sent, bvars,
                   evars, hvars>>

\* ws_gestures / ws_speech on a frame that has no payload or fails the
\* validation: continue
Rejected(ws, frame) ==
    /\ client_state[ws] = "connected"
    /\ Validated(name, frame) = None
    /\ slast' = ServerStep("rejected", ws, frame)
    /\ UNCHANGED <<clients, use_redis, msg_count, client_state, channel, ingested,
                   delivered, name, sent, bvars,
                   evars, hvars>>

\* ws_gestures / ws_speech on a frame that passes the validation:
\* ConnectionManager.ingest(validated, sender), in-memory fan-out
IngestLocal(sender, frame) ==
    /\ msg_count < MaxMessages
    /\ client_state[sender] = "connected"
    /\ ~use_redis
    /\ \E raw \in {Validated(name, frame)} :
          /\ raw # None
          /\ msg_count' = msg_count + 1
          /\ ingested' = ingested \cup {[id |-> msg_count + 1, sender |-> sender,
                                         connected |-> Receivers(clients, client_state),
                                         frame |-> frame]}
          /\ \E b \in {BroadcastLocal(clients, client_state, sender)} :
                /\ clients' = b.clients
                /\ delivered' = delivered \cup {<<ws, msg_count + 1>> : ws \in b.received}
                /\ sent' = sent \cup {[ws |-> ws, id |-> msg_count + 1, data |-> raw] :
                                       ws \in b.received}
    /\ slast' = ServerStep("ingest", sender, frame)
    /\ UNCHANGED <<use_redis, client_state, channel, name, bvars,
                   evars, hvars>>

\* ws_gestures / ws_speech on a frame that passes the validation:
\* ConnectionManager.ingest(validated, sender), Redis pub/sub: publish
IngestRedis(sender, frame) ==
    /\ msg_count < MaxMessages
    /\ client_state[sender] = "connected"
    /\ use_redis
    /\ \E raw \in {Validated(name, frame)} :
          /\ raw # None
          /\ msg_count' = msg_count + 1
          /\ ingested' = ingested \cup {[id |-> msg_count + 1, sender |-> sender,
                                         connected |-> Receivers(clients, client_state),
                                         frame |-> frame]}
          /\ channel' = Append(channel, [id |-> msg_count + 1, data |-> raw])
    /\ slast' = ServerStep("ingest", sender, frame)
    /\ UNCHANGED <<clients, use_redis, client_state, delivered, name, sent, bvars,
                   evars, hvars>>

\* ConnectionManager._redis_listener, one message of the subscription
RedisListener ==
    /\ channel # <<>>
    /\ channel' = Tail(channel)
    /\ \E b \in {BroadcastLocal(clients, client_state, NoSocket)} :
          /\ clients' = b.clients
          /\ delivered' = delivered \cup {<<ws, Head(channel).id>> : ws \in b.received}
          /\ sent' = sent \cup {[ws |-> ws, id |-> Head(channel).id,
                                 data |-> Head(channel).data] : ws \in b.received}
    /\ slast' = None
    /\ UNCHANGED <<use_redis, msg_count, client_state, ingested, name, bvars,
                   evars, hvars>>

InitServer ==
    /\ InitGestureEngine
    /\ InitGestureHandler(GestureTools, SCREEN_WIDTH \div 2, SCREEN_HEIGHT \div 2)
    /\ \E redis \in BOOLEAN : InitConnectionManager(redis)

\* a gesture event as gesture_client.py sends it
GestureFrame == BytesFrame(<<"{", "event_id", "timestamp", "gesture", "}">>)

NextServer ==
    \/ \E ws \in Sockets : Connect(ws)
    \/ \E ws \in Sockets : PeerCloses(ws)
    \/ \E ws \in Sockets : Disconnect(ws)
    \/ \E ws \in Sockets : IngestLocal(ws, GestureFrame)
    \/ \E ws \in Sockets : IngestRedis(ws, GestureFrame)
    \/ RedisListener

SpecServer == InitServer /\ [][NextServer]_vars

----------------------------------------------------------------------------
(* Specification SpecValidate: the gesture manager or the speech manager;  *)
(* two sockets connect, send frames of every kind and go away.             *)

Senders == {"w1", "w2"}

InitValidate ==
    /\ InitGestureEngine
    /\ InitGestureHandler(GestureTools, SCREEN_WIDTH \div 2, SCREEN_HEIGHT \div 2)
    /\ \E nm \in {"gesture", "speech"} : \E redis \in BOOLEAN : InitManager(nm, redis)

NextValidate ==
    \/ \E ws \in Senders : Connect(ws)
    \/ \E ws \in Senders : PeerCloses(ws)
    \/ \E ws \in Senders : Disconnect(ws)
    \/ \E ws \in Senders : \E frame \in Frames : Rejected(ws, frame)
    \/ \E ws \in Senders : \E frame \in Frames : IngestLocal(ws, frame)
    \/ \E ws \in Senders : \E frame \in Frames : IngestRedis(ws, frame)
    \/ RedisListener

SpecValidate == InitValidate /\ [][NextValidate]_vars

----------------------------------------------------------------------------
(* Specification SpecBroadcast: the in-memory fan-out step by step.  A     *)
(* broadcast takes its targets, waits in gather while each _safe_send      *)
(* runs, and drops the stale sockets; sockets connect, close and are       *)
(* disconnected in between, and a second broadcast may start.              *)

MaxBroadcasts == 2

\* the broadcast b with other sockets pending and stale
Waiting(b, pending, stale) == [b EXCEPT !.pending = pending, !.stale = stale]

\* what a broadcast leaves behind: clients_end is the client set found by
\* the loop over the results
Returned(b, clients_end, exc) ==
    [id |-> b.id, sender |-> b.sender, targets |-> b.targets, stale |-> b.stale,
     clients_begin |-> b.clients_begin, clients_end |-> clients_end, raised |-> exc]

\* ingest up to the gather of _broadcast_local, lines 125-165
BroadcastBegin(sender) ==
    /\ msg_count < MaxBroadcasts
    /\ client_state[sender] = "connected"
    /\ ~use_redis
    /\ msg_count' = msg_count + 1
    /\ ingested' = ingested \cup {[id |-> msg_count + 1, sender |-> sender,
                                   connected |-> Receivers(clients, client_state),
                                   frame |-> GestureFrame]}
    /\ \E b \in {[id |-> msg_count + 1, sender |-> sender,
                   targets |-> BroadcastTargets(clients, sender),
                   pending |-> BroadcastTargets(clients, sender),
                   stale |-> {}, clients_begin |-> clients]} :
          IF b.targets = {}
          THEN /\ finished' = finished \cup {Returned(b, clients, FALSE)}
               /\ UNCHANGED inflight
          ELSE /\ inflight' = inflight \cup {b}
               /\ UNCHANGED finished
    /\ slast' = None
    /\ UNCHANGED <<clients, use_redis, client_state, channel, delivered, name, sent,
                   raised, evars, hvars>>

\* one _safe_send of the gather; an exception that leaves it ends the
\* gather, ingest and the endpoint's loop, and the endpoint disconnects the
\* sender (lines 246-248)
Send(id, ws, ok) ==
    \E b \in {w \in inflight : w.id = id} :
    /\ ws \in b.pending
    /\ \E out \in {SafeSend(client_state[ws], ok)} :
          /\ inflight' = IF out = "raise" THEN inflight \ {b}
                         ELSE (inflight \ {b})
                              \cup {Waiting(b, b.pending \ {ws},
                                            IF out = "stale" THEN b.stale \cup {ws}
                                            ELSE b.stale)}
          /\ sent' = IF out = "sent"
                     THEN sent \cup {[ws |-> ws, id |-> b.id, data |-> GestureFrame.data]}
                     ELSE sent
          /\ delivered' = IF out = "sent" THEN delivered \cup {<<ws, b.id>>} ELSE delivered
          /\ finished' = IF out = "raise" THEN finished \cup {Returned(b, clients, TRUE)}
                         ELSE finished
          /\ raised' = (raised \/ out = "raise")
          /\ clients' = IF out = "raise" THEN clients \ {b.sender} ELSE clients
    /\ slast' = None
    /\ UNCHANGED <<use_redis, msg_count, client_state, channel, ingested, name,
                   evars, hvars>>

\* the gather is over: lines 166-168, and the return to the endpoint
BroadcastEnd(id) ==
    \E b \in {w \in inflight : w.id = id} :
    /\ b.pending = {}
    /\ \E r \in {DiscardStale(clients, b.stale)} :
          /\ clients' = IF r.raised THEN r.clients \ {b.sender} ELSE r.clients
          /\ raised' = (raised \/ r.raised)
          /\ finished' = finished \cup {Returned(b, clients, r.raised)}
    /\ inflight' = inflight \ {b}
    /\ slast' = None
    /\ UNCHANGED <<use_redis, msg_count, client_state, channel, ingested, delivered,
                   name, sent, evars, hvars>>

InitBroadcast ==
    /\ InitGestureEngine
    /\ InitGestureHandler(GestureTools, SCREEN_WIDTH \div 2, SCREEN_HEIGHT \div 2)
    /\ InitConnectionManager(FALSE)

NextBroadcast ==
    \/ \E ws \in Sockets : Connect(ws)
    \/ \E ws \in Sockets : PeerCloses(ws)
    \/ \E ws \in Sockets : Disconnect(ws)
    \/ \E ws \in Sockets : BroadcastBegin(ws)
    \/ \E id \in 1..MaxBroadcasts : \E ws \in Sockets : \E ok \in BOOLEAN :
          Send(id, ws, ok)
    \/ \E id \in 1..MaxBroadcasts : BroadcastEnd(id)

SpecBroadcast == InitBroadcast /\ [][NextBroadcast]_vars

----------------------------------------------------------------------------
(* Release thresholds, checked under Spec *)

DocumentedQuickRelease ==
    /\ (IdxReleased /\ ~pre.moved /\ clock - pre.pinch_t0 < DOC_QUICK_MS)
         => Classified("tap", "end")
    /\ (MidReleased /\ clock - pre.pinch_t0 < DOC_QUICK_MS)
         => Classified("double_tap", "end")

----------------------------------------------------------------------------
(* Properties of the call and the returned event, checked under            *)
(* SpecPayload                                                             *)

\* the last call of update
LastCall == calls[Len(calls)]

\* the last call was given 21 landmarks
WellFormedCall == nframes > 0 /\ LastCall.nlm = NUM_LANDMARKS

\* one result per call so far
OnePerCall == Len(calls) = nframes

\* C13 as claimed: every call with 21 landmarks returns an event whose
\* cursor is the index tip of that frame
CursorIsIndexTip ==
    WellFormedCall
    => /\ OnePerCall
       /\ ~LastCall.raised
       /\ LastCall.payload.cursor = LastCall.tip

\* C13 amended: every call with 21 landmarks returns an event whose cursor
\* is the index tip of that frame rounded to 5 decimal places: a multiple of
\* 0.00001 at most 0.000005 away from it
CursorIsRoundedIndexTip ==
    WellFormedCall
    => /\ OnePerCall
       /\ ~LastCall.raised
       /\ LastCall.payload.cursor.x % 10 = 0
       /\ LastCall.payload.cursor.y % 10 = 0
       /\ Abs(LastCall.payload.cursor.x - LastCall.tip.x) <= 5
       /\ Abs(LastCall.payload.cursor.y - LastCall.tip.y) <= 5

\* a frame in the index pinch, after the hand moved, with the tip off the
\* grid of 0.00001
CursorIsRoundedIndexTipWitness ==
    /\ WellFormedCall
    /\ pre.state = S_IDX_PINCH
    /\ state = S_IDX_PINCH
    /\ frame_dx # 0
    /\ LastCall.tip.x % 10 # 0
    /\ LastCall.payload.cursor.x # LastCall.tip.x
    /\ Abs(LastCall.payload.cursor.x - LastCall.tip.x) <= 5

\* v clamped to lo..hi
Clamp(v, lo, hi) == IF v < lo THEN lo ELSE IF v > hi THEN hi ELSE v

\* C14: the confidence of every event is 1 - min(index distance, middle
\* distance) clamped to [0, 1]
ConfidenceClamped ==
    (nframes > 0 /\ ~LastCall.raised)
    => /\ LastCall.payload.confidence = Clamp(1000 - Min(idx_dist, mid_dist), 0, 1000)
       /\ LastCall.payload.confidence >= 0
       /\ LastCall.payload.confidence <= 1000

\* C15: a call with a landmark list of another length than 21 raises and
\* leaves the engine as it was
MalformedFailsFast ==
    (nframes > 0 /\ LastCall.nlm # NUM_LANDMARKS)
    => (LastCall.raised /\ Eng = pre)

----------------------------------------------------------------------------
(* The classification against the engine state, checked under Spec *)

ConsistentTriples ==
    {<<S_IDLE, "none", "idle">>, <<S_IDLE, "tap", "end">>,
     <<S_IDLE, "double_tap", "end">>, <<S_IDLE, "pinch_hold", "end">>,
     <<S_IDLE, "pinch_drag", "end">>, <<S_IDLE, "pinch_flick", "end">>,
     <<S_MID_PINCH, "double_tap", "start">>,
     <<S_IDX_PINCH, "pinch_hold", "start">>,
     <<S_IDX_PINCH, "pinch_hold", "active">>,
     <<S_IDX_PINCH, "pinch_drag", "active">>}

\* C16 (classification total and consistent): at the start and after every
\* update (engine state, type, phase) is one of the ten triples, and type is
\* none exactly when phase is idle; the engine starts Idle
ClassificationConsistent ==
    /\ <<state, gtype, gstate>> \in ConsistentTriples
    /\ (gtype = "none") <=> (gstate = "idle")
    /\ nframes = 0 => state = S_IDLE

\* a hold past 500 ms, still pinched
ClassificationConsistentWitness ==
    /\ nframes > 0
    /\ <<state, gtype, gstate>> = <<S_IDX_PINCH, "pinch_hold", "active">>
    /\ dur_ms > HOLD_MIN_MS

----------------------------------------------------------------------------
(* The cooldown deadline, checked under SpecCool *)

\* the last frame found the engine Idle and leaves the index channel
\* pinched and the middle channel unpinched
IdxAloneInIdle == nframes > 0 /\ pre.state = S_IDLE /\ idx_pinched /\ ~mid_pinched

----------------------------------------------------------------------------
\* C17 GestureHandler.handle_event executes exactly one tool call and adds
\* one to action_count if and only if the event's gesture state is end or
\* ended and its type is one of the five handled types; the call is
\* click(left, 1) for tap, click(left, 2) for double_tap, click(right) for
\* pinch_hold, drag_and_drop for pinch_drag and scroll for pinch_flick.  On
\* every other event it returns None, executes no tool and leaves
\* action_count unchanged.

AfterHandleEvent == hlast # None /\ hlast.op = "handle_event"

Completed(ev) ==
    /\ ev.has_gesture
    /\ ev.state = "end" \/ ev.state = "ended"
    /\ ev.type \in {"tap", "double_tap", "pinch_hold", "pinch_drag", "pinch_flick"}

Counted == action_count = hpre.action_count + 1
NotCounted == action_count = hpre.action_count

MappedCall(ev, call) ==
    /\ ev.type = "tap" => call.tool = "click" /\ call.button = "left" /\ call.clicks = 1
    /\ ev.type = "double_tap" =>
          call.tool = "click" /\ call.button = "left" /\ call.clicks = 2
    /\ ev.type = "pinch_hold" => call.tool = "click" /\ call.button = "right"
    /\ ev.type = "pinch_drag" => call.tool = "drag_and_drop"
    /\ ev.type = "pinch_flick" => call.tool = "scroll"

Skipped == hlast.returned = "none" /\ ~hlast.executed /\ hlast.call = None /\ NotCounted

----------------------------------------------------------------------------
\* C18 Cursor freeze: handle_cursor never moves the OS cursor on an event
\* whose gesture state is start or active with a type other than none; the
\* freeze point is captured only on the first such event after an unfrozen
\* period; the first later event with state end or idle, or with type none,
\* clears the frozen flag and resumes cursor movement.

AfterHandleCursor == hlast # None /\ hlast.op = "handle_cursor"

GestureRunning(ev) ==
    /\ ev.has_gesture
    /\ ev.state = "start" \/ ev.state = "active"
    /\ ev.type # "none"

PointerKept == mouse_x = hpre.mouse_x /\ mouse_y = hpre.mouse_y /\ ~hlast.moved
FreezePointKept == freeze_px = hpre.freeze_px /\ freeze_py = hpre.freeze_py

\* the pointer the handler steers to: the smoothed, remapped cursor
PointerFollows ==
    /\ hlast.moved
    /\ mouse_x = NormToPx(smooth_x, SCREEN_WIDTH)
    /\ mouse_y = NormToPx(smooth_y, SCREEN_HEIGHT)

FreezeWhileRunning ==
    AfterHandleCursor /\ GestureRunning(hlast.ev) =>
       /\ PointerKept
       /\ frozen
       /\ hpre.frozen => FreezePointKept

FreezePointOnlyOnFirst ==
    AfterHandleCursor /\ ~(GestureRunning(hlast.ev) /\ ~hpre.frozen) => FreezePointKept

\* as stated: state end or idle, or type none
Releasing(ev) ==
    ev.has_gesture /\ (ev.state = "end" \/ ev.state = "idle" \/ ev.type = "none")

Unfreezing(ev) ==
    \/ ~ev.has_gesture
    \/ ev.state = "end" \/ ev.state = "ended" \/ ev.state = ""
    \/ ev.type = "none"

----------------------------------------------------------------------------
\* C19 Sender exclusion: a message that ConnectionManager.ingest receives
\* from a sender socket is never delivered back to that sender, in the
\* in-memory mode and in the Redis mode, while every other connected client
\* of the manager receives it.

\* the message is no longer on its way
Broadcast(m) == \A i \in DOMAIN channel : channel[i].id # m.id

SenderExclusion ==
    \A m \in ingested :
       /\ <<m.sender, m.id>> \notin delivered
       /\ Broadcast(m) =>
             \A ws \in m.connected \ {m.sender} :
                client_state[ws] = "connected" => <<ws, m.id>> \in delivered

----------------------------------------------------------------------------
\* C21 Index pinch entry effects: right after the frame that enters the
\* index pinch, pinch_t0 is that frame's time, cum_move is 0, moved is false
\* and the trail holds exactly one sample, the index tip and the time of
\* the entry frame, whatever the trail held before.

\* the index tip of the last frame, on the grid of thousandths
LastTip == <<LastCall.tip.x \div FINE, LastCall.tip.y \div FINE>>

IdxEntryEffects ==
    EnteredIdxPinch
    => /\ pinch_t0 = clock
       /\ cum_move = 0
       /\ ~moved
       /\ trail = << <<LastTip[1], LastTip[2], clock>> >>

IdxEntryEffectsWitness ==
    /\ EnteredIdxPinch
    /\ Len(pre.trail) >= 2
    /\ pre.trail[1][1] # LastTip[1]
    /\ Len(trail) = 1

----------------------------------------------------------------------------
\* C22 In-pinch classification: on every frame processed in the index pinch
\* with the index channel still pinched, the classification is
\* (pinch_drag, active) if has_moved, this frame's displacement included,
\* otherwise (pinch_hold, active) if the duration is more than 500 ms,
\* otherwise (pinch_hold, start); exactly one of the three applies.

\* more than the deadzone travelled along the pinch, the last frame included
HasMoved == PathLen(pinch_path) > DRAG_DEADZONE

InPinchClasses ==
    {<<"pinch_drag", "active">>, <<"pinch_hold", "active">>, <<"pinch_hold", "start">>}

InPinchClassification ==
    IdxTracked
    => /\ moved = HasMoved
       /\ HasMoved => Classified("pinch_drag", "active")
       /\ (~HasMoved /\ clock - pinch_t0 > HOLD_MIN_MS)
             => Classified("pinch_hold", "active")
       /\ (~HasMoved /\ clock - pinch_t0 <= HOLD_MIN_MS)
             => Classified("pinch_hold", "start")
       /\ Cardinality({c \in InPinchClasses : Classified(c[1], c[2])}) = 1

\* exactly 500 ms into a pinch that has crept by 0.03: still (pinch_hold, start)
InPinchClassificationWitness ==
    /\ IdxTracked
    /\ clock - pinch_t0 = HOLD_MIN_MS
    /\ PathLen(pinch_path) = 30
    /\ Classified("pinch_hold", "start")

----------------------------------------------------------------------------
\* C23 Release reset: after every index release frame, whatever its
\* classification, the engine is Idle, cum_move is 0, moved is false and
\* the velocity trail is empty.

ReleaseResetMotion == IdxReleased => (state = S_IDLE /\ cum_move = 0 /\ ~moved)

\* as stated
ReleaseReset == ReleaseResetMotion /\ (IdxReleased => trail = <<>>)

\* as the code has it: the release leaves the trail as the frame found it
\* plus the frame's own sample; the next entry into the index pinch clears it
ReleaseResetKeepsTrail ==
    /\ ReleaseResetMotion
    /\ IdxReleased =>
          /\ prev_palm = None
          /\ trail = Append(pre.trail, <<LastTip[1], LastTip[2], clock>>)

\* the release of a pinch that had moved
ReleaseResetKeepsTrailWitness ==
    /\ IdxReleased
    /\ pre.moved
    /\ pre.cum_move > DRAG_DEADZONE
    /\ Len(trail) = 3
    /\ Classified("pinch_drag", "end")

----------------------------------------------------------------------------
\* C24 Reported duration: on every frame after which the engine is in the
\* middle pinch or the index pinch, the entering frame included, the
\* event's duration_ms is the time from pinch_t0 to the frame, so it is 0 on
\* the entering frame and never the duration of an earlier gesture.

InPinchAfterFrame ==
    nframes > 0 /\ ~LastCall.raised /\ state \in {S_MID_PINCH, S_IDX_PINCH}

ReportedDuration ==
    InPinchAfterFrame => LastCall.payload.duration_ms = clock - pinch_t0

----------------------------------------------------------------------------
\* C25 Reported tap_count: in every event tap_count is 1 exactly when the
\* frame is classified (tap, end), 2 exactly when it is classified
\* (double_tap, end), and 0 on every other frame.

ClaimedTapCount(p) ==
    IF p.type = "tap" /\ p.state = "end" THEN 1
    ELSE IF p.type = "double_tap" /\ p.state = "end" THEN 2
    ELSE 0

ReportedTapCount ==
    (nframes > 0 /\ ~LastCall.raised)
    => LastCall.payload.tap_count = ClaimedTapCount(LastCall.payload)

----------------------------------------------------------------------------
\* C26 Velocity estimator result: _calc_vel returns 0 when the trail has
\* fewer than 3 samples; otherwise its reference is the last sample whose
\* timestamp is <= latest.t - 0.1 s, or the oldest sample when there is
\* none, and it returns 0 if dt = latest.t - reference.t < 0.01 s, else
\* distance(reference, latest) * (0.1 / dt).  It never divides by zero.

SampleT(s) == s[3]
Latest(tr) == tr[Len(tr)]

\* the samples at least 0.1 s older than the latest one
OldEnough(tr) == {i \in 1..Len(tr) : SampleT(tr[i]) <= SampleT(Latest(tr)) - 100}

ClaimedReference(tr) ==
    IF OldEnough(tr) = {} THEN tr[1]
    ELSE tr[CHOOSE i \in OldEnough(tr) : \A k \in OldEnough(tr) : k <= i]

\* the window the estimator measures over
WindowDt(tr) == SampleT(Latest(tr)) - SampleT(ClaimedReference(tr))

\* the claimed result as numerator and denominator, 0 being 0 / 1
ClaimedVel(tr) ==
    IF Len(tr) < 3 \/ WindowDt(tr) < 10 THEN <<0, 1>>
    ELSE <<Dist(Pt(ClaimedReference(tr)[1], ClaimedReference(tr)[2]),
                Pt(Latest(tr)[1], Latest(tr)[2])) * 100,
           WindowDt(tr)>>

\* the trail _calc_vel read on a release is the trail the release leaves
VelocityEstimate ==
    IdxReleased
    => /\ vel.d > 0
       /\ vel.n * ClaimedVel(trail)[2] = ClaimedVel(trail)[1] * vel.d

\* four samples, measured from the second one over 120 ms
VelocityEstimateWitness ==
    /\ IdxReleased
    /\ Len(trail) = 4
    /\ ClaimedReference(trail) = trail[2]
    /\ WindowDt(trail) = 120
    /\ vel.n = 30000
    /\ vel.d = 120

----------------------------------------------------------------------------
\* C27 Velocity window: the reference sample of the estimator is the
\* earliest trail sample whose timestamp is >= latest.t - 0.1 s, so the
\* window dt = latest.t - reference.t never exceeds 100 ms.

Measured == IdxReleased /\ Len(trail) >= 3

UsedReference == VelReference(trail, SampleT(Latest(trail)) - VEL_WINDOW)
UsedDt == SampleT(Latest(trail)) - SampleT(UsedReference)

\* as stated
VelocityWindow ==
    Measured
    => /\ SampleT(UsedReference) >= SampleT(Latest(trail)) - 100
       /\ \A i \in 1..Len(trail) :
             SampleT(trail[i]) >= SampleT(Latest(trail)) - 100
                => SampleT(UsedReference) <= SampleT(trail[i])
       /\ UsedDt <= 100

\* as the code has it: the window reaches back at least 100 ms when the
\* trail does, to the latest sample that old; otherwise it spans the trail
VelocityWindowAtLeast ==
    Measured
    => IF SampleT(trail[1]) <= SampleT(Latest(trail)) - 100
       THEN /\ UsedDt >= 100
            /\ \A i \in 1..Len(trail) :
                  SampleT(trail[i]) > SampleT(UsedReference)
                     => SampleT(trail[i]) > SampleT(Latest(trail)) - 100
       ELSE UsedReference = trail[1] /\ UsedDt < 100

\* a window of 120 ms
VelocityWindowAtLeastWitness ==
    /\ Measured
    /\ UsedDt = 120
    /\ UsedReference # trail[1]

----------------------------------------------------------------------------
\* C28 Velocity trail bound: in every reachable state the velocity trail
\* holds at most 12 samples, the oldest being evicted first, its samples
\* are in non-decreasing timestamp order and the current frame's sample is
\* the last one.

\* the samples kept from the trail the frame found: all but the newest
KeptSamples == SubSeq(trail, 1, Len(trail) - 1)

\* the newest n samples of the trail tr
Newest(tr, n) == SubSeq(tr, Len(tr) - n + 1, Len(tr))

TrailBound ==
    /\ Len(trail) <= 12
    /\ \A i, j \in 1..Len(trail) : i <= j => SampleT(trail[i]) <= SampleT(trail[j])
    /\ nframes > 0 =>
          /\ trail # <<>>
          /\ Latest(trail) = <<LastTip[1], LastTip[2], clock>>
          /\ ~EnteredIdxPinch =>
                KeptSamples = Newest(pre.trail, Min(Len(pre.trail), 11))

\* a full trail takes a sample and lets its oldest one go
TrailBoundWitness ==
    /\ nframes >= 13
    /\ Len(pre.trail) = 12
    /\ Len(trail) = 12
    /\ trail[1] = pre.trail[2]
    /\ trail[1] # pre.trail[1]

----------------------------------------------------------------------------
\* C29 Action at the frozen position: when handle_cursor froze the cursor
\* at pixel position P on the start of a gesture, the click or scroll that
\* handle_event executes for the gesture's end event is at P, not at the
\* cursor of the end event, for every P on the screen, positions with
\* pixel x = 0 or pixel y = 0 included; after the action the freeze point
\* is cleared.

\* the callback ran for an event that led to a tool call
AfterAction == hlast # None /\ hlast.op = "on_gesture" /\ hlast.call # None

ActionAtFrozenPosition ==
    AfterAction
    => /\ freeze_px = 0 /\ freeze_py = 0
       /\ (hlast.point # None /\ hlast.call.tool \in {"click", "scroll"})
             => (hlast.call.x = hlast.point[1] /\ hlast.call.y = hlast.point[2])

----------------------------------------------------------------------------
\* C30 Drag endpoints: for a pinch_drag end event produced by the engine,
\* the drag_and_drop the handler executes goes from the tracked point where
\* the pinch started (movement.origin) to the tracked point at the release
\* (movement.current), so its start and end points differ whenever the hand
\* moved between pinch start and release.

AfterDragEnd ==
    /\ AfterAction
    /\ hlast.ev.type = "pinch_drag"
    /\ hlast.ev.state = "end"

\* the index tip of the frame that entered the pinch, and of the release
\* frame, in millionths
PinchStartPoint == [x |-> pinch_path[1][1] * FINE, y |-> pinch_path[1][2] * FINE]
ReleasePoint == LastCall.tip

DragEndpoints ==
    AfterDragEnd
    => /\ hlast.call.tool = "drag_and_drop"
       /\ hlast.ev.origin = PinchStartPoint
       /\ hlast.ev.current = ReleasePoint
       /\ hlast.call.x = PxX(Norm(hlast.ev.origin.x))
       /\ hlast.call.y = PxY(Norm(hlast.ev.origin.y))
       /\ hlast.call.to_x = PxX(Norm(hlast.ev.current.x))
       /\ hlast.call.to_y = PxY(Norm(hlast.ev.current.y))
       /\ PinchStartPoint # ReleasePoint
             => <<hlast.call.x, hlast.call.y>> # <<hlast.call.to_x, hlast.call.to_y>>

----------------------------------------------------------------------------
\* C31 Flick scroll: for a pinch_flick end event with movement velocity
\* (vx, vy), the handler scrolls vertically when |vy| >= |vx| (down if
\* vy > 0, else up) and horizontally otherwise (right if vx > 0, else left),
\* by int(magnitude / 200) clamped to 1..10, where magnitude is the absolute
\* value of the dominant component; the scroll is executed when a tool set
\* provides it.

AfterFlickEnd ==
    /\ hlast # None
    /\ hlast.op = "handle_event"
    /\ hlast.ev.has_gesture
    /\ hlast.ev.type = "pinch_flick"
    /\ hlast.ev.state = "end"

Vertical(ev) == Abs(ev.vy) >= Abs(ev.vx)

ClaimedDirection(ev) ==
    IF Vertical(ev) THEN (IF ev.vy > 0 THEN "down" ELSE "up")
    ELSE (IF ev.vx > 0 THEN "right" ELSE "left")

Dominant(ev) == IF Vertical(ev) THEN Abs(ev.vy) ELSE Abs(ev.vx)

ClaimedAmount(ev) ==
    IF Dominant(ev) \div 200 < 1 THEN 1
    ELSE IF Dominant(ev) \div 200 > 10 THEN 10
    ELSE Dominant(ev) \div 200

FlickScroll ==
    AfterFlickEnd
    => /\ hlast.call.tool = "scroll"
       /\ hlast.call.direction = ClaimedDirection(hlast.ev)
       /\ hlast.call.amount = ClaimedAmount(hlast.ev)
       /\ hlast.call.amount \in 1..10
       /\ "scroll" \in tools => hlast.executed

FlickScrollWitness ==
    /\ AfterFlickEnd
    /\ hlast.ev.vx = -2600
    /\ hlast.ev.vy = 2600
    /\ hlast.executed
    /\ hlast.call.direction = "down"
    /\ hlast.call.amount = 10

----------------------------------------------------------------------------
\* C32 Server validation: a message received on /ws/gestures (or /ws/speech)
\* that is not valid JSON, is not a JSON object, or lacks one of the required
\* keys event_id, timestamp, gesture (resp. speech) is never broadcast to any
\* client, does not increase messages_processed and does not close the
\* sender's connection; a valid message is forwarded byte for byte unchanged.

GestureEventBytes == <<"{", "event_id", "timestamp", "gesture", "}">>
GestureEventText == <<"{", "gesture", "source", "timestamp", "event_id", "}">>
SpeechEventBytes == <<"{", "event_id", "timestamp", "speech", "}">>

\* the frames of Frames that are JSON objects with the required keys
ValidFrames(nm) ==
    IF nm = "gesture"
    THEN {BytesFrame(GestureEventBytes), TextFrame(GestureEventText)}
    ELSE {BytesFrame(SpeechEventBytes)}

AfterRejected == slast # None /\ slast.op = "rejected"
AfterIngest == slast # None /\ slast.op = "ingest"

ServerValidation ==
    /\ AfterRejected
       => /\ slast.frame \notin ValidFrames(name)
          /\ sent = slast.sent
          /\ channel = slast.channel
          /\ msg_count = slast.msg_count
          /\ client_state = slast.client_state
          /\ clients = slast.clients
    /\ AfterIngest
       => /\ slast.frame \in ValidFrames(name)
          /\ msg_count = slast.msg_count + 1
    /\ \A m \in ingested : m.frame \in ValidFrames(name)
    /\ \A i \in DOMAIN channel :
          \E m \in ingested : m.id = channel[i].id /\ m.frame.data = channel[i].data
    /\ \A s \in sent :
          \E m \in ingested : m.id = s.id /\ m.frame.data = s.data

\* a gesture event sent as text reached another client, and an array
\* holding the required names was dropped afterwards
ServerValidationWitness ==
    /\ AfterRejected
    /\ slast.frame = TextFrame(<<"[", "event_id", "timestamp", "gesture", "speech", "]">>)
    /\ slast.ws \in clients
    /\ msg_count = 1
    /\ \E s \in sent : s.data = GestureEventText /\ s.ws # slast.ws

----------------------------------------------------------------------------
\* C33 Dead-socket handling: during a local broadcast, a client whose socket
\* is not connected or whose send fails is removed from the manager's client
\* set; the failure does not prevent delivery to the other targets and does
\* not propagate to the sender's handler; clients that connect or disconnect
\* while the broadcast is in progress never cause an error.

\* the targets of the returned broadcast f that got its message
Reached(f) == {ws \in f.targets : <<ws, f.id>> \in delivered}

DeadSockets ==
    /\ ~raised
    /\ \A f \in finished :
          /\ ~f.raised
          /\ f.targets = f.clients_begin \ {f.sender}
          /\ f.stale \subseteq f.targets
          /\ f.stale \cap clients = {}
          /\ Reached(f) = f.targets \ f.stale
    /\ \A b \in inflight :
          /\ b.stale \cap b.pending = {}
          /\ \A ws \in b.targets \ (b.pending \cup b.stale) : <<ws, b.id>> \in delivered

\* a socket connected while the first broadcast was in progress; a target
\* of the second was disconnected while that was in progress, and the other
\* target got the message
DeadSocketsWitness ==
    \E f \in finished : \E g \in finished :
       /\ f.clients_end \ f.clients_begin # {}
       /\ Cardinality(g.targets) = 2
       /\ \E ws \in g.stale : ws \notin g.clients_end
       /\ Reached(g) # {}

----------------------------------------------------------------------------
\* C34 Reconnect backoff: in _listen_loop the retry delay starts at
\* reconnect_delay, is multiplied by 1.5 after each failed connection
\* attempt but never exceeds max_reconnect_delay, and is reset to
\* reconnect_delay on every successful connection; in every state
\* reconnect_delay <= delay <= max_reconnect_delay, and while running the
\* loop retries forever after any connection failure.

\* 2 s times 1.5, 1.5^2, ... up to 30 s, in 1/64 s
BackoffTable == <<128, 192, 288, 432, 648, 972, 1458, 1920>>

ClaimedDelay(k) ==
    IF k + 1 > Len(BackoffTable) THEN MAX_RECONNECT_DELAY ELSE BackoffTable[k + 1]

BackoffDelay ==
    ws_pc # "idle"
    => /\ RECONNECT_DELAY <= delay
       /\ delay <= MAX_RECONNECT_DELAY
       /\ delay = ClaimedDelay(backoffs)
       /\ ws_last = "run" => delay = RECONNECT_DELAY
       /\ ws_pc = "listening" => delay = RECONNECT_DELAY

\* a listener that waits to retry does connect again, unless it is stopped
RetriesForever == (ws_pc = "sleeping") ~> (ws_pc = "connecting" \/ ~ws_running)

ReconnectBackoff == []BackoffDelay /\ RetriesForever

\* the ninth retry in a row, the delay at its limit for the second time
ReconnectBackoffWitness ==
    /\ ws_running
    /\ ws_pc = "connecting"
    /\ ws_last = "wake"
    /\ backoffs = 9
    /\ delay = MAX_RECONNECT_DELAY

----------------------------------------------------------------------------
\* C35 Cooldown frame: the cooldown deadline is modified only by a frame
\* that emits (double_tap, end); every other frame (idle frames, index pinch
\* entry, tracking and release, middle pinch entry and preview, a discarded
\* middle hold) leaves it unchanged, and with non-decreasing timestamps it
\* never decreases.

CooldownFrame ==
    nframes > 0
    => /\ Classified("double_tap", "end")
          => /\ MidReleased
             /\ dbl_cooldown_until = clock + DOUBLE_TAP_COOL
       /\ ~Classified("double_tap", "end")
          => dbl_cooldown_until = pre.dbl_cooldown_until
       /\ dbl_cooldown_until >= pre.dbl_cooldown_until

\* the second double-tap of a run moves a deadline that has not passed yet
CooldownFrameWitness ==
    /\ nframes > 0
    /\ Classified("double_tap", "end")
    /\ pre.dbl_cooldown_until > clock
    /\ dbl_cooldown_until > pre.dbl_cooldown_until

----------------------------------------------------------------------------
\* C36 Motion accumulator invariant: in every reachable state has_moved is
\* true exactly when cumulative_distance > 0.05; cumulative_distance never
\* decreases while the engine stays in IndexPinch; whenever the engine is in
\* Idle or MiddlePinch, cumulative_distance = 0 and has_moved = false.

StaysInIdxPinch == nframes > 0 /\ pre.state = S_IDX_PINCH /\ state = S_IDX_PINCH

MotionAccumulator ==
    /\ moved <=> cum_move > DRAG_DEADZONE
    /\ cum_move >= 0
    /\ StaysInIdxPinch => cum_move >= pre.cum_move
    /\ state \in {S_IDLE, S_MID_PINCH} => (cum_move = 0 /\ ~moved)

\* the frame on which the accumulated movement passes the deadzone
MotionAccumulatorWitness ==
    /\ StaysInIdxPinch
    /\ pre.cum_move > 0
    /\ ~pre.moved
    /\ cum_move > DRAG_DEADZONE
    /\ moved

----------------------------------------------------------------------------
\* C37 One end per pinch: a frame with phase end is emitted only on the
\* frame where the tracked channel of the current pinch state becomes
\* unpinched; every such frame was preceded in the same episode by an entry
\* frame with phase start; the frame right after an end frame never has
\* phase end, it is (none, idle) or a start frame; so each pinch episode
\* produces at most one end event.

EndFrame(i) == hist[i].gstate = "end"

\* frame i found the engine in a pinch and its channel, pinched until then,
\* is unpinched after it
TrackedChannelOpens(i) ==
    \/ hist[i].from = S_IDX_PINCH /\ hist[i].idx_was /\ ~hist[i].idx_pinched
    \/ hist[i].from = S_MID_PINCH /\ hist[i].mid_was /\ ~hist[i].mid_pinched

\* frame j entered the pinch that frame i finds, and the engine stayed in it
\* without an end in between
EntryOf(j, i) ==
    /\ hist[j].from = S_IDLE
    /\ hist[j].to = hist[i].from
    /\ hist[j].gstate = "start"
    /\ \A k \in (j + 1)..(i - 1) :
          /\ hist[k].from = hist[i].from
          /\ hist[k].to = hist[i].from
          /\ ~EndFrame(k)

OneEndPerPinch ==
    \A i \in DOMAIN hist :
       EndFrame(i)
       => /\ TrackedChannelOpens(i)
          /\ hist[i].to = S_IDLE
          /\ \E j \in 1..(i - 1) : EntryOf(j, i)
          /\ (i + 1) \in DOMAIN hist
             => \/ hist[i + 1].gtype = "none" /\ hist[i + 1].gstate = "idle"
                \/ hist[i + 1].gstate = "start" /\ hist[i + 1].from = S_IDLE

\* two episodes back to back, an index pinch and a middle pinch
OneEndPerPinchWitness ==
    /\ Len(hist) = 4
    /\ EndFrame(2)
    /\ hist[3].gstate = "start"
    /\ EndFrame(4)
    /\ hist[2].from # hist[4].from

====
